---- MODULE Spec2Model ----
(***************************************************************************)
(* Planar-subdivision kernel of geoalg-notebooks: the doubly-connected     *)
(* edge list (data_structures/dcel.py, data_structures/objects.py) and the *)
(* trapezoidal decomposition with its search DAG                           *)
(* (data_structures/vertical_decomposition.py).                            *)
(*                                                                         *)
(* Objects live in arenas indexed in creation order: vertex i is the i-th  *)
(* element of _vertices, half-edge e the e-th element of _edges, face f    *)
(* the f-th element of _faces.  0 stands for None.  Points are pairs of    *)
(* integers <<x, y>> with x >= 1, so every orientation test of core.py is  *)
(* decided exactly and the EPSILON tolerance never changes an outcome.     *)
(***************************************************************************)
EXTENDS Integers, Sequences, FiniteSets, TLC

VARIABLES dcel, ret, steps, pl, qres

vars == <<dcel, ret, steps, pl, qres>>

(***************************************************************************)
(* Generic helpers                                                         *)
(***************************************************************************)
Range(s) == {s[i] : i \in DOMAIN s}

InSeq(s, x) == \E i \in DOMAIN s : s[i] = x

RECURSIVE SelectIdx(_, _, _)
SelectIdx(s, keep, i) ==
    IF i > Len(s) THEN <<>>
    ELSE IF keep[i] THEN <<s[i]>> \o SelectIdx(s, keep, i + 1)
    ELSE SelectIdx(s, keep, i + 1)

\* filter(lambda, list): the elements s[i] with keep[i], in order
FilterSeq(s, keep) == SelectIdx(s, keep, 1)

\* list.remove(x): drops the first occurrence of x
RemoveFirst(s, x) ==
    IF ~InSeq(s, x) THEN s
    ELSE LET k == CHOOSE i \in DOMAIN s : s[i] = x /\ \A j \in 1..(i - 1) : s[j] # x
         IN SubSeq(s, 1, k - 1) \o SubSeq(s, k + 1, Len(s))

Min2(a, b) == IF a <= b THEN a ELSE b
Max2(a, b) == IF a >= b THEN a ELSE b

(***************************************************************************)
(* geometry/core.py                                                        *)
(***************************************************************************)
PerpDot(a, b) == a[1] * b[2] - a[2] * b[1]
Dot(a, b) == a[1] * b[1] + a[2] * b[2]
Sub(a, b) == <<a[1] - b[1], a[2] - b[2]>>

\* Point.orientation(source, target) for source # target
Orientation(p, s, t) ==
    LET sd == Sub(p, s)
        td == Sub(t, s)
        area == PerpDot(sd, td)
    IN IF area < 0 THEN "LEFT"
       ELSE IF area > 0 THEN "RIGHT"
       ELSE IF Dot(sd, td) < 0 THEN "BEFORE_SOURCE"
       ELSE IF Dot(sd, td) > Dot(td, td) THEN "BEHIND_TARGET"
       ELSE "BETWEEN"

\* lexicographic order of points
LexLess(p, q) == p[1] < q[1] \/ (p[1] = q[1] /\ p[2] < q[2])

\* Point.horizontal_orientation(other)
HorizontalOrientation(p, q) ==
    IF p = q THEN "EQUAL" ELSE IF LexLess(p, q) THEN "LEFT" ELSE "RIGHT"

\* LineSegment.upper / LineSegment.lower of the segment through p and q
SegUpper(p, q) == IF p[2] > q[2] \/ (p[2] = q[2] /\ p[1] < q[1]) THEN p ELSE q
SegLower(p, q) == IF p[2] > q[2] \/ (p[2] = q[2] /\ p[1] < q[1]) THEN q ELSE p

(***************************************************************************)
(* data_structures/objects.py: Vertex, HalfEdge, Face                      *)
(***************************************************************************)
\* DoublyConnectedEdgeList.clear(): no vertices, no half-edges, the outer face
EmptyDCEL ==
    [vp |-> <<>>, ve |-> <<>>,
     origin |-> <<>>, twin |-> <<>>, next |-> <<>>, prev |-> <<>>, iface |-> <<>>,
     fouter |-> <<0>>, finner |-> << <<>> >>, fisout |-> <<TRUE>>, outer_face |-> 1]

\* HalfEdge(origin), appended to _edges: twin, prev and next are the edge itself
NewHalfEdge(d, v) ==
    LET e == Len(d.origin) + 1
    IN [d EXCEPT !.origin = Append(@, v), !.twin = Append(@, e),
                 !.next = Append(@, e), !.prev = Append(@, e),
                 !.iface = Append(@, 0)]

\* Vertex(point), appended to _vertices, its half-edge appended to _edges
NewVertex(d, p) ==
    LET d1 == NewHalfEdge(d, Len(d.vp) + 1)
    IN [d1 EXCEPT !.vp = Append(@, p), !.ve = Append(@, Len(d1.origin))]

\* the twin setter links both directions (HalfEdge._set_twin)
SetTwin(d, a, b) == [d EXCEPT !.twin = [[@ EXCEPT ![a] = b] EXCEPT ![b] = a]]

\* a next setter that forgets the successor's prev
SetNextOneWay(d, a, b) == [d EXCEPT !.next[a] = b]

\* the next setter also sets the successor's prev (HalfEdge._set_next)
SetNext(d, a, b) == [d EXCEPT !.next[a] = b, !.prev[b] = a]

Destination(d, e) == d.origin[d.twin[e]]
OPoint(d, e) == d.vp[d.origin[e]]
DPoint(d, e) == d.vp[Destination(d, e)]

RECURSIVE CycleFrom(_, _, _, _)
CycleFrom(d, start, cur, fuel) ==
    IF cur = start \/ fuel = 0 THEN <<>>
    ELSE <<cur>> \o CycleFrom(d, start, d.next[cur], fuel - 1)

\* HalfEdge.cycle(): the half-edges reached by following next
Cycle(d, e) == <<e>> \o CycleFrom(d, e, d.next[e], Len(d.origin))

\* the while loop of HalfEdge.cycle() ends: following next from e leads back
\* to e.  When it does not, the list grows until memory is exhausted.
CycleReturns(d, e) == Len(Cycle(d, e)) <= Len(d.origin)

\* HalfEdge.vertex_on_cycle(vertex)
VertexOnCycle(d, e, v) == \E x \in Range(Cycle(d, e)) : d.origin[x] = v

RECURSIVE OutFrom(_, _, _, _)
OutFrom(d, start, cur, fuel) ==
    IF cur = start \/ fuel = 0 THEN <<>>
    ELSE <<cur>> \o OutFrom(d, start, d.next[d.twin[cur]], fuel - 1)

\* Vertex.outgoing_edges()
OutgoingEdges(d, v) ==
    LET e0 == d.ve[v]
    IN IF Destination(d, e0) = v THEN <<>>
       ELSE <<e0>> \o OutFrom(d, e0, d.next[d.twin[e0]], Len(d.origin))

\* a face update that reaches the half-edge alone, not its cycle
UpdateFaceOfEdgeOnly(d, e, f) == [d EXCEPT !.iface[e] = f]

\* HalfEdge.update_face_in_cycle(face)
UpdateFaceInCycle(d, e, f) ==
    LET cyc == Range(Cycle(d, e))
    IN [d EXCEPT !.iface = [x \in DOMAIN @ |-> IF x \in cyc THEN f ELSE @[x]]]

RECURSIVE ShoelaceSum(_, _, _)
ShoelaceSum(d, cyc, i) ==
    IF i > Len(cyc) THEN 0
    ELSE (OPoint(d, cyc[i])[2] + DPoint(d, cyc[i])[2])
           * (OPoint(d, cyc[i])[1] - DPoint(d, cyc[i])[1])
         + ShoelaceSum(d, cyc, i + 1)

\* HalfEdge.is_cycle_clockwise(): shoelace sum below -EPSILON
IsCycleClockwise(d, e) == ShoelaceSum(d, Cycle(d, e), 1) < 0

\* Face.outer_half_edges()
OuterHalfEdges(d, f) == IF d.fouter[f] = 0 THEN <<>> ELSE Cycle(d, d.fouter[f])

RECURSIVE ConcatCycles(_, _, _)
ConcatCycles(d, comps, i) ==
    IF i > Len(comps) THEN <<>>
    ELSE Cycle(d, comps[i]) \o ConcatCycles(d, comps, i + 1)

\* Face.inner_half_edges()
InnerHalfEdges(d, f) == ConcatCycles(d, d.finner[f], 1)

\* LineSegment.intersection of the edge o-t with the ray of Face.contains, the
\* segment from (-EPSILON, p.y) to p.  kind is "Point", "Segment" or "None";
\* at tells whether a Point result is the edge's lower or upper endpoint.
RayIntersection(o, t, p) ==
    LET up == SegUpper(o, t)
        lo == SegLower(o, t)
        sdx == up[1] - lo[1]
        sdy == up[2] - lo[2]
    IN IF sdy > 0
       THEN \* not parallel: a = (p.y - lo.y) / sdy, b along the ray
            IF lo[2] <= p[2] /\ p[2] <= up[2]
               /\ (p[1] - lo[1]) * sdy - (p[2] - lo[2]) * sdx >= 0
            THEN [kind |-> "Point",
                  at |-> IF p[2] = lo[2] THEN lo
                         ELSE IF p[2] = up[2] THEN up ELSE <<0, 0>>]
            ELSE [kind |-> "None", at |-> <<0, 0>>]
       ELSE \* horizontal edge: collinear overlap or nothing
            IF p[2] # lo[2] THEN [kind |-> "None", at |-> <<0, 0>>]
            ELSE IF p[1] = up[1] THEN [kind |-> "Point", at |-> up]
            ELSE IF p[1] > up[1] THEN [kind |-> "Segment", at |-> <<0, 0>>]
            ELSE [kind |-> "None", at |-> <<0, 0>>]

\* one pass of the loop body of Face.contains: does this edge flip `inside`
RayFlips(d, e, p) ==
    LET x == RayIntersection(OPoint(d, e), DPoint(d, e), p)
    IN /\ x.kind = "Point"
       /\ (x.at # OPoint(d, e) \/ DPoint(d, e)[2] < p[2])
       /\ (x.at # DPoint(d, e) \/ OPoint(d, e)[2] < p[2])

\* Face.contains(search_point): ray casting against the outer boundary only
Contains(d, f, p) ==
    LET oh == OuterHalfEdges(d, f)
    IN Cardinality({i \in DOMAIN oh : RayFlips(d, oh[i], p)}) % 2 = 1


(***************************************************************************)
(* data_structures/dcel.py: DoublyConnectedEdgeList                        *)
(***************************************************************************)
\* DoublyConnectedEdgeList.inner_faces()
InnerFaces(d) == FilterSeq([f \in DOMAIN d.fouter |-> f], [f \in DOMAIN d.fouter |-> ~d.fisout[f]])

\* DoublyConnectedEdgeList.find_containing_face(point)
FindContainingFace(d, p) ==
    LET inner == InnerFaces(d)
        hits == {i \in DOMAIN inner : Contains(d, inner[i], p)}
    IN IF hits = {} THEN d.outer_face
       ELSE inner[CHOOSE i \in hits : \A j \in hits : i <= j]

\* DoublyConnectedEdgeList.point_between_edge_and_next(point, edge)
PointBetweenEdgeAndNext(d, p, e) ==
    LET e1 == d.next[e]
        o0 == OPoint(d, e)
        d0 == DPoint(d, e)
        o1 == OPoint(d, e1)
        d1 == DPoint(d, e1)
    IN \/ d.twin[e] = e1
       \/ (Orientation(p, o0, d0) = "LEFT" /\ Orientation(p, o1, d1) = "LEFT")
       \/ (Orientation(p, o0, d0) = "LEFT" /\ Orientation(d1, o0, d0) = "RIGHT")
       \/ (Orientation(p, o1, d1) = "LEFT" /\ Orientation(o0, o1, d1) = "RIGHT")

\* DoublyConnectedEdgeList.find_splitting_face(vertex, point); -1 when it raises
FindSplittingFace(d, v, p) ==
    LET out == OutgoingEdges(d, v)
        hits == {i \in DOMAIN out : PointBetweenEdgeAndNext(d, p, d.twin[out[i]])}
    IN IF hits = {} THEN -1
       ELSE d.iface[d.twin[out[CHOOSE i \in hits : \A j \in hits : i <= j]]]

RECURSIVE SearchSlot(_, _, _, _, _)
\* the while loops of _add_edge (lines 137-140 and 145-148); -1 when they raise
SearchSlot(d, p, cur, start, fuel) ==
    IF PointBetweenEdgeAndNext(d, p, cur) THEN cur
    ELSE LET nx == d.twin[d.next[cur]]
         IN IF nx = start \/ fuel = 0 THEN -1
            ELSE SearchSlot(d, p, nx, start, fuel - 1)

\* "Find correct order around vertex" of _add_edge
FindSearchEdge(d, v, p) ==
    LET ve == d.ve[v]
        start == d.twin[ve]
    IN IF ve # d.twin[ve] /\ d.twin[ve] # d.prev[ve]
       THEN SearchSlot(d, p, start, start, Len(d.origin))
       ELSE start

\* a Face constructor that flags every face as the outer face
NewFaceOuter(d, inner_edge) ==
    [d EXCEPT !.fouter = Append(@, inner_edge),
              !.finner = Append(@, <<>>),
              !.fisout = Append(@, TRUE)]

\* Face(inner_edge), appended to _faces
NewFace(d, inner_edge) ==
    [d EXCEPT !.fouter = Append(@, inner_edge),
              !.finner = Append(@, <<>>),
              !.fisout = Append(@, FALSE)]

\* lines 304-308 of _split_face, on the DCEL d that holds the new face as its
\* last face: the old face takes the twin's cycle as its outer component when
\* that cycle is not clockwise, and the cycle of inner_edge gets the new face
CloseNewFace(d, inner_edge, face) ==
    UpdateFaceInCycle(IF ~IsCycleClockwise(d, d.twin[inner_edge])
                      THEN [d EXCEPT !.fouter[face] = d.twin[inner_edge]]
                      ELSE d,
                      inner_edge, Len(d.fouter))

\* a _split_face that gives the new face the side of edge, whatever its turn
SplitFaceAtEdge(d, edge, face) ==
    [d |-> CloseNewFace(NewFace(d, edge), edge, face),
     face |-> Len(d.fouter) + 1]

\* DoublyConnectedEdgeList._split_face(edge, face): the record of the new DCEL
\* and the new face
SplitFace(d, edge, face) ==
    [d |-> CloseNewFace(NewFace(d, IF ~IsCycleClockwise(d, edge) THEN edge ELSE d.twin[edge]),
                        IF ~IsCycleClockwise(d, edge) THEN edge ELSE d.twin[edge], face),
     face |-> Len(d.fouter) + 1]

RECURSIVE MoveComponents(_, _, _, _, _)
\* the for loop of _fix_inner_components (lines 330-337)
MoveComponents(d, comps, i, old_face, new_face) ==
    IF i > Len(comps) THEN d
    ELSE LET d1 == [d EXCEPT !.finner[old_face] = RemoveFirst(@, comps[i]),
                             !.finner[new_face] = Append(@, comps[i])]
         IN MoveComponents(UpdateFaceInCycle(d1, comps[i], new_face),
                           comps, i + 1, old_face, new_face)

\* the filter of lines 317-319: the inner components of old_face that the new
\* half-edges did not reach
UnaffectedComponents(d, e0, e1, old_face) ==
    FilterSeq(d.finner[old_face], [i \in DOMAIN d.finner[old_face] |->
        /\ d.iface[d.finner[old_face][i]] = old_face
        /\ e0 \notin Range(Cycle(d, d.finner[old_face][i]))
        /\ e1 \notin Range(Cycle(d, d.finner[old_face][i]))])

\* lines 322-323: one of the new half-edges becomes an inner component unless
\* one of them lies on the outer component of old_face
AppendComponent(d, e0, e1, old_face) ==
    IF d.fisout[old_face]
       \/ ~(\/ e0 \in Range(Cycle(d, d.fouter[old_face]))
            \/ e1 \in Range(Cycle(d, d.fouter[old_face])))
    THEN [d EXCEPT !.finner[old_face] = Append(@, IF d.iface[e0] = old_face THEN e0 ELSE e1)]
    ELSE d

\* the filter of lines 327-329
ComponentsToMove(d, e0, e1, old_face, new_face) ==
    FilterSeq(d.finner[old_face], [i \in DOMAIN d.finner[old_face] |->
        /\ Contains(d, new_face, OPoint(d, d.finner[old_face][i]))
        /\ ~(\/ e0 \in Range(Cycle(d, d.finner[old_face][i]))
             \/ e1 \in Range(Cycle(d, d.finner[old_face][i])))])

\* a _fix_inner_components that leaves every component with the old face
RedistributeNothing(d, e0, e1, old_face, new_face) == d

\* lines 326-337: "redistribute inner components"
RedistributeComponents(d, e0, e1, old_face, new_face) ==
    IF new_face = 0 THEN d
    ELSE MoveComponents(d, ComponentsToMove(d, e0, e1, old_face, new_face), 1,
                        old_face, new_face)

\* DoublyConnectedEdgeList._fix_inner_components(edge_0, edge_1, old_face, new_face)
FixInnerComponents(d, e0, e1, old_face, new_face) ==
    RedistributeComponents(
        AppendComponent([d EXCEPT !.finner[old_face] = UnaffectedComponents(d, e0, e1, old_face)],
                        e0, e1, old_face),
        e0, e1, old_face, new_face)

\* _add_edge without the comparison of the two faces
SameFaceUnchecked(face_0, face_1) == TRUE

\* the test `face_0 != face_1` of _add_edge (line 128), negated
SameFace(face_0, face_1) == face_0 = face_1

\* lines 156-163 of _add_edge on the DCEL d in which the two half-edges are
\* twins: old_s1_next and old_s2_next are read before the four next pointers
\* are set
SetEdgePointers(d, s1, s2, h0, h1) ==
    SetNext(SetNext(SetNext(SetNext(d, s1, h0), s2, h1), h0, d.next[s2]), h1, d.next[s1])

\* lines 165-168: face_1 is the face _split_face returns, or None
SplitIfNewFace(d, new_face, h0, face0) ==
    IF new_face THEN SplitFace(d, h0, face0) ELSE [d |-> d, face |-> 0]

\* line 172: _fix_inner_components on what _split_face left
FixAfterSplit(sp, h0, h1, face0) == FixInnerComponents(sp.d, h0, h1, face0, sp.face)

\* lines 165-172: _split_face and _fix_inner_components on the DCEL d in which
\* the four next pointers are set
AddEdgeLink(d, h0, h1, face0, new_face) ==
    FixAfterSplit(SplitIfNewFace(d, new_face, h0, face0), h0, h1, face0)

\* the cycle walks of _split_face and _fix_inner_components all end: those
\* from the two new half-edges when a face is split, those from the inner
\* components of the face and the one from its outer component
WalksReturn(d, h0, h1, face0, new_face) ==
    /\ new_face => (CycleReturns(d, h0) /\ CycleReturns(d, h1))
    /\ \A i \in DOMAIN d.finner[face0] : CycleReturns(d, d.finner[face0][i])
    /\ (~d.fisout[face0] /\ d.fouter[face0] # 0) => CycleReturns(d, d.fouter[face0])

\* lines 165-172 on the DCEL d in which the pointers are set: a cycle walk
\* that never comes back ends the call with a MemoryError
AddEdgeLinked(d, h0, h1, face0, face1, new_face) ==
    IF ~WalksReturn(d, h0, h1, face0, new_face)
    THEN [d |-> d, status |-> "MemoryError", f0 |-> face0, f1 |-> face1]
    ELSE [d |-> AddEdgeLink(d, h0, h1, face0, new_face), status |-> "ok",
          f0 |-> face0, f1 |-> face1]

\* lines 140-172 for the slots s1 and s2; -1 is a search that raised
AddEdgeOrder(d, v0, v1, h0, h1, face0, face1, new_face, s1, s2) ==
    IF s1 = -1 \/ s2 = -1
    THEN [d |-> d, status |-> "Exception", f0 |-> face0, f1 |-> face1]
    ELSE AddEdgeLinked(SetEdgePointers(SetTwin(d, h0, h1), s1, s2, h0, h1),
                       h0, h1, face0, face1, new_face)

\* lines 134-172: "Find correct order around vertex_0" and "around vertex_1"
AddEdgeSearch(d, v0, v1, h0, h1, face0, face1, new_face) ==
    AddEdgeOrder(d, v0, v1, h0, h1, face0, face1, new_face,
                 FindSearchEdge(d, v0, d.vp[v1]), FindSearchEdge(d, v1, d.vp[v0]))

\* lines 128-172: the comparison of the two faces and what follows it
AddEdgeFaces(d, v0, v1, h0, h1, face0, face1, new_face) ==
    IF ~SameFace(face0, face1)
    THEN [d |-> d, status |-> "RuntimeError", f0 |-> face0, f1 |-> face1]
    ELSE AddEdgeSearch([d EXCEPT !.iface = [[@ EXCEPT ![h0] = face0] EXCEPT ![h1] = face0]],
                       v0, v1, h0, h1, face0, face1, new_face)

\* a check that looks at the inner components alone
CreatesFaceInnerOnly(d, v0, v1, face0) ==
    \E i \in DOMAIN d.finner[face0] :
        /\ VertexOnCycle(d, d.finner[face0][i], v0)
        /\ VertexOnCycle(d, d.finner[face0][i], v1)

\* "Check if new edge will create additional face" (lines 109-114)
CreatesFace(d, v0, v1, face0) ==
    \/ \E i \in DOMAIN d.finner[face0] :
          /\ VertexOnCycle(d, d.finner[face0][i], v0)
          /\ VertexOnCycle(d, d.finner[face0][i], v1)
    \/ /\ ~d.fisout[face0]
       /\ VertexOnCycle(d, d.fouter[face0], v0)
       /\ VertexOnCycle(d, d.fouter[face0], v1)

\* lines 100-129 ("Handle faces") once the two faces are resolved; -1 is a
\* find_splitting_face that raised
AddEdgeResolved(d, v0, v1, h0, h1, n0, n1, face0, face1) ==
    IF face0 = -1 \/ face1 = -1
    THEN [d |-> d, status |-> "Exception", f0 |-> face0, f1 |-> face1]
    ELSE AddEdgeFaces(IF n0 = 0 /\ n1 = 0
                      THEN [d EXCEPT !.finner[face0] = Append(@, h0)]
                      ELSE d,
                      v0, v1, h0, h1, face0, face1,
                      n0 # 0 /\ n1 # 0 /\ CreatesFace(d, v0, v1, face0))

\* lines 100-172 for the numbers n0 and n1 of outgoing edges of the vertices
AddEdgeHandleFaces(d, v0, v1, h0, h1, n0, n1) ==
    AddEdgeResolved(d, v0, v1, h0, h1, n0, n1,
                    IF n0 # 0 THEN FindSplittingFace(d, v0, d.vp[v1])
                    ELSE FindContainingFace(d, d.vp[v0]),
                    IF n1 # 0 THEN FindSplittingFace(d, v1, d.vp[v0])
                    ELSE FindContainingFace(d, d.vp[v1]))

\* lines 100-172: num_out_edges_0 and num_out_edges_1 are counted
AddEdgeCount(d, v0, v1, h0, h1) ==
    AddEdgeHandleFaces(d, v0, v1, h0, h1,
                       Len(OutgoingEdges(d, v0)), Len(OutgoingEdges(d, v1)))

\* lines 94-172: half_edge_1 is the half-edge of an isolated vertex_1 or a new
\* one
AddEdgeSecond(d, v0, v1, h0) ==
    AddEdgeCount(IF d.ve[v1] = d.twin[d.ve[v1]] THEN d ELSE NewHalfEdge(d, v1),
                 v0, v1, h0,
                 IF d.ve[v1] = d.twin[d.ve[v1]] THEN d.ve[v1] ELSE Len(d.origin) + 1)

\* DoublyConnectedEdgeList._add_edge(vertex_0, vertex_1): the DCEL it leaves,
\* "ok" or the exception it raises, and the faces resolved for the two
\* endpoints (-1 where find_splitting_face raised)
AddEdge(d, v0, v1) ==
    AddEdgeSecond(IF d.ve[v0] = d.twin[d.ve[v0]] THEN d ELSE NewHalfEdge(d, v0),
                  v0, v1,
                  IF d.ve[v0] = d.twin[d.ve[v0]] THEN d.ve[v0] ELSE Len(d.origin) + 1)


\* the vertex the lookup loop of add_edge_by_points (lines 71-77) ends with for
\* `point`, when `other` is the other point looked up; 0 for None
LookupVertex(d, point, other) ==
    LET has(q) == \E i \in DOMAIN d.vp : d.vp[i] = q
        first(q) == CHOOSE i \in DOMAIN d.vp : d.vp[i] = q /\ \A j \in 1..(i - 1) : d.vp[j] # q
        stop == IF has(point) /\ has(other) THEN Max2(first(point), first(other))
                ELSE Len(d.vp)
        seen == {i \in 1..stop : d.vp[i] = point}
    IN IF seen = {} THEN 0 ELSE CHOOSE i \in seen : \A j \in seen : j <= i

\* add_edge_by_points without the loop that looks for the edge (lines 78-80)
AddEdgeByPointsUnchecked(d, point, other_point) ==
    IF LookupVertex(d, point, other_point) = 0 \/ LookupVertex(d, other_point, point) = 0
    THEN [d |-> d, status |-> "ValueError", f0 |-> 0, f1 |-> 0]
    ELSE AddEdge(d, LookupVertex(d, point, other_point), LookupVertex(d, other_point, point))

\* DoublyConnectedEdgeList.add_edge_by_points(point, other_point)
AddEdgeByPoints(d, point, other_point) ==
    LET vertex_0 == LookupVertex(d, point, other_point)
        vertex_1 == LookupVertex(d, other_point, point)
    IN IF \E e \in DOMAIN d.origin : OPoint(d, e) = point /\ DPoint(d, e) = other_point
       THEN [d |-> d, status |-> "return", f0 |-> 0, f1 |-> 0]
       ELSE IF vertex_0 = 0 \/ vertex_1 = 0
       THEN [d |-> d, status |-> "ValueError", f0 |-> 0, f1 |-> 0]
       ELSE AddEdge(d, vertex_0, vertex_1)

\* DoublyConnectedEdgeList.add_edge(edge) with check_edge = False; the indices
\* are those of the constructor's edge list, counted from 0
AddEdgeByIndex(d, edge) ==
    IF edge[1] >= Len(d.vp) \/ edge[1] < 0 \/ edge[2] >= Len(d.vp) \/ edge[2] < 0
    THEN [d |-> d, status |-> "False", f0 |-> 0, f1 |-> 0]
    ELSE AddEdge(d, edge[1] + 1, edge[2] + 1)

\* an _on_edge that never finds an edge
OnEdgeNever(d, p) == [status |-> "ok", found |-> 0]

\* DoublyConnectedEdgeList._on_edge(point): found is the first half-edge the
\* point lies BETWEEN the endpoints of, 0 when there is none
OnEdge(d, p) ==
    LET es == [e \in DOMAIN d.origin |-> e]
        found_edges == FilterSeq(es, [e \in DOMAIN d.origin |->
                          /\ OPoint(d, e) # DPoint(d, e)
                          /\ Orientation(p, OPoint(d, e), DPoint(d, e)) = "BETWEEN"])
    IN IF Len(found_edges) % 2 = 1 THEN [status |-> "Exception", found |-> 0]
       ELSE IF Len(found_edges) = 0 THEN [status |-> "ok", found |-> 0]
       ELSE [status |-> "ok", found |-> found_edges[1]]

\* e.next = f.twin.next, f.next = g and e.incident_face = f.incident_face, with
\* f and g read when the statement runs
SetNextOfTwin(d, f, g) == SetNext(d, d.twin[f], g)

SetFaceOf(d, e, f) == [d EXCEPT !.iface[e] = d.iface[f]]

SetFaceOfTwin(d, e, f) == [d EXCEPT !.iface[e] = d.iface[d.twin[f]]]

\* lines 212-226 of add_vertex_in_edge ("Fix twin and next pointers", "Set
\* faces") for new_vertex.edge = nve and new_half_edge = nh; old_next and
\* old_twin_next are read before any pointer is set
FixPointers(d, edge, nve, nh) ==
    SetFaceOfTwin(
        SetFaceOf(
            SetNext(
                SetNextOfTwin(
                    SetNext(
                        SetNext(
                            SetTwin(SetTwin(d, nve, d.twin[edge]), nh, edge),
                            edge, nve),
                        nve, d.next[edge]),
                    nve, nh),
                nh, d.next[d.twin[edge]]),
            nve, edge),
        nh, nve)

\* lines 212-226 on the DCEL d that holds the new vertex and its two half-edges
SplitEdge(d, edge, new_vertex) == FixPointers(d, edge, d.ve[new_vertex], Len(d.origin))

\* DoublyConnectedEdgeList.add_vertex_in_edge(edge, point); value is the index
\* of the new vertex, 0 for None
AddVertexInEdge(d, edge, p) ==
    IF OPoint(d, edge) = DPoint(d, edge)
    THEN \* line 200: the orientation test runs only here, and raises
         [d |-> d, status |-> "Exception", value |-> 0]
    ELSE IF OPoint(d, edge) = p \/ DPoint(d, edge) = p
    THEN [d |-> d, status |-> "ok", value |-> 0]
    ELSE [d |-> SplitEdge(NewHalfEdge(NewVertex(d, p), Len(d.vp) + 1), edge, Len(d.vp) + 1),
          status |-> "ok", value |-> Len(d.vp) + 1]

\* DoublyConnectedEdgeList.add_vertex(point).  obj is the vertex whose Point
\* object is passed, 0 when the caller passes a Point object of its own.
AddVertex(d, p, obj) ==
    IF obj # 0 THEN [d |-> d, status |-> "ok", value |-> obj]
    ELSE LET on == OnEdge(d, p)
             split == AddVertexInEdge(d, on.found, p)
             d1 == NewVertex(d, p)
             nv == Len(d1.vp)
         IN IF on.status # "ok" THEN [d |-> d, status |-> on.status, value |-> 0]
            ELSE IF on.found # 0 THEN split
            ELSE [d |-> [d1 EXCEPT !.iface[d1.ve[nv]] = FindContainingFace(d1, p)],
                  status |-> "ok", value |-> nv]


\* DoublyConnectedEdgeList._assert_well_formed(): TRUE when it raises nothing
EdgeWellFormed(d, e) ==
    \/ e = d.twin[e]
    \/ /\ d.next[d.prev[e]] = e
       /\ d.prev[d.next[e]] = e
       /\ DPoint(d, d.prev[e]) = OPoint(d, e)
       /\ OPoint(d, d.next[e]) = DPoint(d, e)
       /\ OPoint(d, e) # DPoint(d, e)
       /\ d.twin[d.twin[e]] = e
       /\ OPoint(d, e) = DPoint(d, d.twin[e])
       /\ DPoint(d, e) = OPoint(d, d.twin[e])
       /\ d.iface[e] # 0
       /\ \/ InSeq(OuterHalfEdges(d, d.iface[e]), e)
          \/ InSeq(InnerHalfEdges(d, d.iface[e]), e)

FaceWellFormed(d, f) ==
    /\ ~(d.fisout[f] /\ d.fouter[f] # 0)
    /\ ~(d.fisout[f] /\ f # d.outer_face)
    /\ \A e \in Range(OuterHalfEdges(d, f)) : d.iface[e] = f
    /\ \A e \in Range(d.finner[f]) : d.iface[e] = f

AssertWellFormed(d) ==
    IF Len(d.vp) = 0 THEN Len(d.origin) = 0 /\ Len(d.fouter) = 1
    ELSE /\ \A e \in DOMAIN d.origin : EdgeWellFormed(d, e)
         /\ \A f \in DOMAIN d.fouter : FaceWellFormed(d, f)

\* the DCEL and the exception, if any, that a call left
Outcome(a) == [d |-> a.d, status |-> a.status, f0 |-> 0, f1 |-> 0]

RECURSIVE AddVertices(_, _, _)
\* the loops of __init__ over points and over edges; they end with the first
\* exception
AddVertices(r, points, i) ==
    IF i > Len(points) \/ r.status # "ok" THEN r
    ELSE AddVertices(Outcome(AddVertex(r.d, points[i], 0)), points, i + 1)

RECURSIVE AddEdges(_, _, _)
AddEdges(r, edges, i) ==
    IF i > Len(edges) \/ r.status \notin {"ok", "False"} THEN r
    ELSE AddEdges(AddEdgeByIndex(r.d, edges[i]), edges, i + 1)

\* line 21 of __init__: _assert_well_formed on what the two loops left
FinishConstruct(r) ==
    IF r.status \notin {"ok", "False"} THEN r
    ELSE IF ~AssertWellFormed(r.d) THEN [d |-> r.d, status |-> "Exception"]
    ELSE [d |-> r.d, status |-> "ok"]

\* DoublyConnectedEdgeList.__init__(points, edges)
Construct(points, edges) ==
    FinishConstruct(AddEdges(AddVertices([d |-> EmptyDCEL, status |-> "ok", f0 |-> 0, f1 |-> 0],
                                         points, 1),
                             edges, 1))

(***************************************************************************)
(* Callers of the DCEL: the points they pass, the constructor calls that    *)
(* build the initial subdivisions, and one action per public method.        *)
(***************************************************************************)
\* at most MaxOps method calls follow the constructor
MaxOps == 2

PA == <<1, 1>>
PB == <<9, 1>>
PC == <<1, 9>>
PD == <<2, 2>>
PE == <<4, 2>>
PG == <<4, 4>>
PF == <<2, 4>>
PK == <<3, 3>>
PM == <<5, 1>>
PH == <<9, 9>>

\* the points callers pass to add_vertex, add_edge_by_points, add_vertex_in_edge
Universe == {PA, PB, PC, PD, PE, PG, PF, PK, PM, PH}

\* constructor arguments: the triangle PA PB PC around the square PD PE PG PF,
\* listed triangle first and square first; edges are pairs of indices from 0
TrianglePoints == <<PA, PB, PC, PD, PE, PG, PF>>
TriangleEdges == <<<<0, 1>>, <<1, 2>>, <<2, 0>>, <<3, 4>>, <<4, 5>>, <<5, 6>>, <<6, 3>>>>
SquarePoints == <<PD, PE, PG, PF, PA, PB, PC>>
SquareEdges == <<<<0, 1>>, <<1, 2>>, <<2, 3>>, <<3, 0>>, <<4, 5>>, <<5, 6>>, <<6, 4>>>>

\* the constructor calls: every prefix of the triangle-first edge list, the
\* square-first list from the closed square on, and two lists without edges
ConstructorArgs ==
    {[points |-> TrianglePoints, edges |-> SubSeq(TriangleEdges, 1, k)] :
        k \in 0..Len(TriangleEdges)}
    \cup {[points |-> SquarePoints, edges |-> SubSeq(SquareEdges, 1, k)] :
        k \in 4..Len(SquareEdges)}
    \cup {[points |-> <<>>, edges |-> <<>>], [points |-> <<PA, PB>>, edges |-> <<>>]}

Constructions == {Construct(a.points, a.edges) : a \in ConstructorArgs}

\* the DCELs the constructor returns without raising
InitialDCELs == {r.d : r \in {c \in Constructions : c.status = "ok"}}

NoPoint == <<0, 0>>

NoRet == [op |-> "init", status |-> "ok", value |-> 0, p |-> NoPoint,
          q |-> NoPoint, e |-> 0, f0 |-> 0, f1 |-> 0]

\* no query has been made
NoQuery == [p |-> NoPoint, face |-> 0, status |-> "none"]

\* the half-edges with two different endpoints
RealEdges(d) == {e \in DOMAIN d.origin : OPoint(d, e) # DPoint(d, e)}

\* x lies on the closed segment s-t
OnSeg(x, s, t) == Orientation(x, s, t) = "BETWEEN"

\* the segments p-q and o-t meet somewhere other than in a common endpoint
SegmentsCross(p, q, o, t) ==
    \/ /\ {Orientation(p, o, t), Orientation(q, o, t)} = {"LEFT", "RIGHT"}
       /\ {Orientation(o, p, q), Orientation(t, p, q)} = {"LEFT", "RIGHT"}
    \/ (OnSeg(p, o, t) /\ p \notin {o, t})
    \/ (OnSeg(q, o, t) /\ q \notin {o, t})
    \/ (OnSeg(o, p, q) /\ o \notin {p, q})
    \/ (OnSeg(t, p, q) /\ t \notin {p, q})

\* the precondition callers of add_edge_by_points are held to: the new edge
\* p-q crosses no existing edge and runs through no existing vertex
NonCrossing(d, p, q) ==
    /\ p # q
    /\ \A e \in RealEdges(d) : ~SegmentsCross(p, q, OPoint(d, e), DPoint(d, e))
    /\ \A v \in DOMAIN d.vp : ~(OnSeg(d.vp[v], p, q) /\ d.vp[v] \notin {p, q})

\* every walk of the code (HalfEdge.cycle, Vertex.outgoing_edges, the slot
\* search of _add_edge) comes back to its start: next and prev are inverse
\* permutations and twin is an involution.  A call on a DCEL where this fails
\* may never return, and has no after-state.
Walkable(d) ==
    \A e \in DOMAIN d.origin :
        /\ d.prev[d.next[e]] = e
        /\ d.next[d.prev[e]] = e
        /\ d.twin[d.twin[e]] = e

Init ==
    /\ dcel \in InitialDCELs
    /\ ret = NoRet
    /\ steps = 0
    /\ pl = 0
    /\ qres = NoQuery

\* dcel.add_vertex(Point(p)) with a Point object of the caller's own
DoAddVertex(p) ==
    /\ steps < MaxOps
    /\ Walkable(dcel)
    /\ \E r \in {AddVertex(dcel, p, 0)} :
          /\ dcel' = r.d
          /\ ret' = [NoRet EXCEPT !.op = "add_vertex", !.status = r.status,
                                  !.value = r.value, !.p = p,
                                  !.e = OnEdge(dcel, p).found]
    /\ steps' = steps + 1
    /\ UNCHANGED <<pl, qres>>

\* dcel.add_edge_by_points(p, q)
DoAddEdgeByPoints(p, q) ==
    /\ steps < MaxOps
    /\ Walkable(dcel)
    /\ \E r \in {AddEdgeByPoints(dcel, p, q)} :
          /\ dcel' = r.d
          /\ ret' = [NoRet EXCEPT !.op = "add_edge_by_points", !.status = r.status,
                                  !.p = p, !.q = q, !.f0 = r.f0, !.f1 = r.f1]
    /\ steps' = steps + 1
    /\ UNCHANGED <<pl, qres>>

\* dcel.add_vertex_in_edge(dcel.edges[e - 1], p)
DoAddVertexInEdge(e, p) ==
    /\ steps < MaxOps
    /\ Walkable(dcel)
    /\ \E r \in {AddVertexInEdge(dcel, e, p)} :
          /\ dcel' = r.d
          /\ ret' = [NoRet EXCEPT !.op = "add_vertex_in_edge", !.status = r.status,
                                  !.value = r.value, !.p = p, !.e = e]
    /\ steps' = steps + 1
    /\ UNCHANGED <<pl, qres>>

\* dcel.clear()
ClearStep ==
    /\ steps < MaxOps
    /\ dcel' = EmptyDCEL
    /\ ret' = [NoRet EXCEPT !.op = "clear"]
    /\ steps' = steps + 1
    /\ UNCHANGED <<pl, qres>>

\* callers that keep the precondition: no crossing edges, split points on the edge
AddVertexStep == \E p \in Universe : DoAddVertex(p)

AddEdgeStep ==
    /\ steps < MaxOps
    /\ \E p, q \in Universe : NonCrossing(dcel, p, q) /\ DoAddEdgeByPoints(p, q)

AddVertexInEdgeStep ==
    /\ steps < MaxOps
    /\ \E e \in RealEdges(dcel), p \in Universe :
          /\ OnSeg(p, OPoint(dcel, e), DPoint(dcel, e))
          /\ DoAddVertexInEdge(e, p)

Next == AddVertexStep \/ AddEdgeStep \/ AddVertexInEdgeStep \/ ClearStep

Spec == Init /\ [][Next]_vars

\* callers that pass anything
AnyAddVertex == \E p \in Universe : DoAddVertex(p)

AnyAddEdge == \E p, q \in Universe : DoAddEdgeByPoints(p, q)

AnyAddVertexInEdge ==
    /\ steps < MaxOps
    /\ \E e \in DOMAIN dcel.origin, p \in Universe : DoAddVertexInEdge(e, p)

NextAny == AnyAddVertex \/ AnyAddEdge \/ AnyAddVertexInEdge \/ ClearStep

SpecAny == Init /\ [][NextAny]_vars

(***************************************************************************)
(* Properties                                                              *)
(***************************************************************************)
HalfEdges == DOMAIN dcel.origin

\* the half-edges that have a twin other than themselves
Twinned == {e \in HalfEdges : dcel.twin[e] # e}

Succeeded == ret.status \in {"ok", "return"}

\* C1: after any sequence of add_vertex, add_edge_by_points and
\* add_vertex_in_edge calls whose edges cross no existing edge, every half-edge
\* e with a twin other than itself has e.twin.twin = e, e.prev.next = e,
\* e.next.prev = e, e.origin = e.twin.destination and e.next.origin =
\* e.destination.
C1_LinkInvariants ==
    \A e \in Twinned :
        /\ dcel.twin[dcel.twin[e]] = e
        /\ dcel.next[dcel.prev[e]] = e
        /\ dcel.prev[dcel.next[e]] = e
        /\ dcel.origin[e] = Destination(dcel, dcel.twin[e])
        /\ dcel.origin[dcel.next[e]] = Destination(dcel, e)

\* two calls after the constructor, the last an edge insertion inside a
\* bounded face, in a subdivision with two bounded faces and eight edges
C1_Witness ==
    /\ steps = MaxOps
    /\ ret.op = "add_edge_by_points"
    /\ ret.status = "ok"
    /\ ret.f0 >= 2
    /\ Len(dcel.fouter) = 3
    /\ Cardinality(Twinned) = 16

\* C6: after every successful add_vertex, add_edge_by_points or
\* add_vertex_in_edge, every half-edge e with e.twin # e appears in the
\* outer-boundary walk of e.incident_face or in the cycle of one of its inner
\* components.
C6_EdgeOnBoundaryOfItsFace ==
    Succeeded =>
        \A e \in Twinned :
            /\ dcel.iface[e] # 0
            /\ \/ InSeq(OuterHalfEdges(dcel, dcel.iface[e]), e)
               \/ InSeq(InnerHalfEdges(dcel, dcel.iface[e]), e)

\* the triangle around the square, the hole first merged into the triangle's
\* boundary by one bridge edge and the ring then split by a second one
C6_Witness ==
    /\ steps = MaxOps
    /\ ret.op = "add_edge_by_points"
    /\ ret.status = "ok"
    /\ Len(dcel.fouter) = 4
    /\ \A f \in 2..4 : dcel.finner[f] = <<>>
    /\ Cardinality(Twinned) = 18

\* the half-edges of d that p lies on, strictly between their endpoints
EdgesThrough(d, p) ==
    {e \in RealEdges(d) : OnSeg(p, OPoint(d, e), DPoint(d, e))
                          /\ p \notin {OPoint(d, e), DPoint(d, e)}}

\* some half-edge of d runs from point a to point b
HasHalfEdge(d, a, b) == \E e \in DOMAIN d.origin : OPoint(d, e) = a /\ DPoint(d, e) = b

\* C9: add_vertex(p) for a point p strictly between the endpoints a and b of
\* an existing edge splits that edge: the new vertex has exactly two outgoing
\* half-edges, to a and to b, the pairs a-p and p-b exist and are collinear,
\* no half-edge runs directly between a and b, and the number of faces is
\* unchanged.
C9_AddVertexSplitsEdge ==
    [][(ret'.op = "add_vertex" /\ EdgesThrough(dcel, ret'.p) # {}) =>
          \E e \in EdgesThrough(dcel, ret'.p) :
              LET a == OPoint(dcel, e)
                  b == DPoint(dcel, e)
                  p == ret'.p
                  v == ret'.value
                  out == OutgoingEdges(dcel', v)
              IN /\ ret'.status = "ok"
                 /\ v = Len(dcel.vp) + 1
                 /\ Len(dcel'.vp) = v
                 /\ dcel'.vp[v] = p
                 /\ Len(out) = 2
                 /\ {DPoint(dcel', out[i]) : i \in DOMAIN out} = {a, b}
                 /\ HasHalfEdge(dcel', a, p) /\ HasHalfEdge(dcel', p, a)
                 /\ HasHalfEdge(dcel', p, b) /\ HasHalfEdge(dcel', b, p)
                 /\ Orientation(p, a, b) = "BETWEEN"
                 /\ ~HasHalfEdge(dcel', a, b) /\ ~HasHalfEdge(dcel', b, a)
                 /\ Len(dcel'.fouter) = Len(dcel.fouter)]_vars

\* add_vertex found the point on an edge and returned a vertex with two
\* outgoing half-edges
C9_Witness ==
    /\ ret.op = "add_vertex"
    /\ ret.e # 0
    /\ ret.value = Len(dcel.vp)
    /\ Len(OutgoingEdges(dcel, ret.value)) = 2

\* the cycle of half-edge e winds around point p: the ray of Face.contains
\* crosses it an odd number of times
Encloses(d, e, p) ==
    LET cyc == Cycle(d, e)
    IN Cardinality({i \in DOMAIN cyc : RayFlips(d, cyc[i], p)}) % 2 = 1

\* p lies in the region of the bounded face f: inside its outer boundary and
\* inside none of its holes
InRegion(d, f, p) ==
    /\ ~d.fisout[f]
    /\ Encloses(d, d.fouter[f], p)
    /\ \A i \in DOMAIN d.finner[f] : ~Encloses(d, d.finner[f][i], p)

\* p lies on no edge and on no vertex of d
OffEdges(d, p) ==
    /\ \A e \in RealEdges(d) : ~OnSeg(p, OPoint(d, e), DPoint(d, e))
    /\ \A v \in DOMAIN d.vp : d.vp[v] # p

\* C5: for every DCEL reachable by valid operations and every point not on an
\* edge, find_containing_face(point) returns the face whose region contains
\* the point: a bounded face whose outer boundary encloses the point while none
\* of its holes does, and the outer face exactly when no bounded face contains
\* the point.
C5_FindContainingFace ==
    \A p \in Universe :
        OffEdges(dcel, p) =>
            LET f == FindContainingFace(dcel, p)
            IN IF \E g \in DOMAIN dcel.fouter : InRegion(dcel, g, p)
               THEN InRegion(dcel, f, p)
               ELSE f = dcel.outer_face

\* add_edge_by_points raised from _add_edge after both endpoints resolved to a
\* face: the RuntimeError of line 129 (different faces) or the Exception of
\* lines 140 and 148 (no slot around a vertex)
EdgeFailed(r) ==
    /\ r.op = "add_edge_by_points"
    /\ r.status \in {"RuntimeError", "Exception"}
    /\ r.f0 >= 1
    /\ r.f1 >= 1

\* C7: whenever add_edge_by_points fails with an error (the endpoints resolve
\* to different faces, or no insertion slot is found around a vertex), the
\* DCEL is exactly as before the call: vertex list, half-edge list, face list,
\* inner_components and all twin/next/prev/incident_face links are unchanged.
C7_FailedEdgeLeavesDCEL ==
    [][EdgeFailed(ret') => dcel' = dcel]_vars

\* C8: add_edge_by_points(p, q) raises the topology error whenever the face
\* resolved for the endpoint at p differs from the face resolved for the
\* endpoint at q, and then no half-edge pair between p and q is linked into
\* the structure.
C8_DifferentFacesRaise ==
    (/\ ret.op = "add_edge_by_points"
     /\ ret.f0 >= 1
     /\ ret.f1 >= 1
     /\ ret.f0 # ret.f1)
    => /\ ret.status = "RuntimeError"
       /\ ~HasHalfEdge(dcel, ret.p, ret.q)
       /\ ~HasHalfEdge(dcel, ret.q, ret.p)

\* an edge from a vertex inside a bounded face to a vertex in the outer face
\* was refused
C8_Witness ==
    /\ ret.op = "add_edge_by_points"
    /\ ret.status = "RuntimeError"
    /\ ret.f0 >= 2
    /\ ret.f1 = dcel.outer_face

\* C10: add_vertex_in_edge(edge, point) with a point that is not
\* collinear-between edge.origin and edge.destination is rejected: no vertex
\* and no half-edge is created and no twin/next/prev link changes.
C10_OffEdgePointRejected ==
    [][(/\ ret'.op = "add_vertex_in_edge"
        /\ ret'.e \in RealEdges(dcel)
        /\ ~OnSeg(ret'.p, OPoint(dcel, ret'.e), DPoint(dcel, ret'.e)))
       => /\ ret'.status # "ok"
          /\ dcel'.vp = dcel.vp
          /\ dcel'.origin = dcel.origin
          /\ dcel'.twin = dcel.twin
          /\ dcel'.next = dcel.next
          /\ dcel'.prev = dcel.prev]_vars

\* C15: for every point p, including a point whose coordinates equal those of
\* an existing vertex but which is a distinct object, add_vertex(p) returns a
\* vertex v of the DCEL with v.point = p; it never returns None.
C15_AddVertexReturnsVertex ==
    ret.op = "add_vertex" =>
        /\ ret.status = "ok"
        /\ ret.value \in DOMAIN dcel.vp
        /\ dcel.vp[ret.value] = ret.p

\* C16: add_edge_by_points(p, q) called when the DCEL already has an edge
\* between the vertices at p and q, in either direction, changes nothing: the
\* vertex, half-edge and face lists and all links are the same before and
\* after the call.
C16_ExistingEdgeUnchanged ==
    [][(/\ ret'.op = "add_edge_by_points"
        /\ ret'.p # ret'.q
        /\ (HasHalfEdge(dcel, ret'.p, ret'.q) \/ HasHalfEdge(dcel, ret'.q, ret'.p)))
       => /\ ret'.status = "return"
          /\ dcel' = dcel]_vars

\* add_edge_by_points returned early for two different points of a DCEL in
\* which half-edges run between them in both directions
C16_Witness ==
    /\ ret.op = "add_edge_by_points"
    /\ ret.status = "return"
    /\ ret.p # ret.q
    /\ HasHalfEdge(dcel, ret.p, ret.q)
    /\ HasHalfEdge(dcel, ret.q, ret.p)

\* the twinned half-edges whose origin and destination are the same point
ZeroLengthEdges(d) == {e \in DOMAIN d.origin : d.twin[e] # e /\ OPoint(d, e) = DPoint(d, e)}

\* C17: add_edge_by_points(p, p) for a vertex at p, isolated or connected,
\* fails with an error, and afterwards no half-edge pair whose origin and
\* destination are the same point is linked into the DCEL.
C17_ZeroLengthEdgeFails ==
    (/\ ret.op = "add_edge_by_points"
     /\ ret.p = ret.q
     /\ \E v \in DOMAIN dcel.vp : dcel.vp[v] = ret.p)
    => /\ ret.status \notin {"ok", "return"}
       /\ ZeroLengthEdges(dcel) = {}

\* C18: in every reachable state of a DCEL (after construction, after clear(),
\* after any sequence of vertex and edge insertions, face splits included)
\* exactly one face of faces is flagged is_outer, it is the face outer_face
\* returns, and its outer_component is None.
C18_ExactlyOneOuterFace ==
    /\ Cardinality({f \in DOMAIN dcel.fouter : dcel.fisout[f]}) = 1
    /\ dcel.outer_face \in DOMAIN dcel.fouter
    /\ dcel.fisout[dcel.outer_face]
    /\ dcel.fouter[dcel.outer_face] = 0

\* an edge insertion has just split a face of a DCEL that already had a
\* bounded face, and the outer face has inner components
C18_Witness ==
    /\ ret.op = "add_edge_by_points"
    /\ ret.status = "ok"
    /\ Len(dcel.fouter) >= 3
    /\ Len(dcel.fouter) \in {dcel.iface[Len(dcel.origin)], dcel.iface[Len(dcel.origin) - 1]}
    /\ dcel.finner[dcel.outer_face] # <<>>

(***************************************************************************)
(* data_structures/vertical_decomposition.py                               *)
(*                                                                         *)
(* pl is the PointLocation object.  Its line segments, trapezoids and DAG  *)
(* nodes live in arenas in creation order (segs, traps, nodes); 0 is None. *)
(* A segment is [l, r, face]: its left and right endpoint and its          *)
(* above_face, a face index of the caller's DCEL, 0 for None, or -1 for    *)
(* the outer face of the DCEL that clear_vertical_decomposition creates.   *)
(* The PointSequence calls only record animation events and are left out.  *)
(***************************************************************************)
\* Point.vertical_orientation(line_segment) for the segment from l to r
VerticalOrientation(p, l, r) ==
    IF l[1] = r[1]
    THEN IF p[1] < l[1] THEN "ABOVE" ELSE IF p[1] > l[1] THEN "BELOW" ELSE "ON"
    ELSE LET c == (p[2] - l[2]) * (r[1] - l[1]) - (p[1] - l[1]) * (r[2] - l[2])
         IN IF c > 0 THEN "ABOVE" ELSE IF c < 0 THEN "BELOW" ELSE "ON"

\* LineSegment.left and LineSegment.right of the segment through p and q
SegLeft(p, q) == IF LexLess(SegUpper(p, q), SegLower(p, q)) THEN SegUpper(p, q) ELSE SegLower(p, q)
SegRight(p, q) == IF LexLess(SegLower(p, q), SegUpper(p, q)) THEN SegUpper(p, q) ELSE SegLower(p, q)

\* a.slope() > b.slope() for segments a and b; a vertical segment has slope inf
SlopeGreater(a, b) ==
    IF a.l[1] = a.r[1] THEN b.l[1] # b.r[1]
    ELSE IF b.l[1] = b.r[1] THEN FALSE
    ELSE (a.r[2] - a.l[2]) * (b.r[1] - b.l[1]) > (b.r[2] - b.l[2]) * (a.r[1] - a.l[1])

\* VDLineSegment(p, q) with above_face = face
VDLineSegment(p, q, face) == [l |-> SegLeft(p, q), r |-> SegRight(p, q), face |-> face]

\* a VDFace constructor that stores the two segments the wrong way round
NewVDFaceSwapped(v, top_ls, bottom_ls, left_point, right_point) ==
    [v EXCEPT !.traps = Append(@, [top |-> bottom_ls, bottom |-> top_ls,
                                   lp |-> left_point, rp |-> right_point,
                                   ur |-> 0, ul |-> 0, ll |-> 0, lr |-> 0,
                                   leaf |-> 0])]

\* VDFace(top_ls, bottom_ls, left_point, right_point), appended to the arena
NewVDFace(v, top_ls, bottom_ls, left_point, right_point) ==
    [v EXCEPT !.traps = Append(@, [top |-> top_ls, bottom |-> bottom_ls,
                                   lp |-> left_point, rp |-> right_point,
                                   ur |-> 0, ul |-> 0, ll |-> 0, lr |-> 0,
                                   leaf |-> 0])]

\* a setter that writes the link of t alone
SetUpperRightOneWay(v, t, n) == [v EXCEPT !.traps[t].ur = n]

\* the neighbor setters of VDFace: each also sets the opposite link of the
\* new neighbor, unless that is None
SetUpperRight(v, t, n) ==
    LET v1 == [v EXCEPT !.traps[t].ur = n]
    IN IF n = 0 THEN v1 ELSE [v1 EXCEPT !.traps[n].ul = t]

SetUpperLeft(v, t, n) ==
    LET v1 == [v EXCEPT !.traps[t].ul = n]
    IN IF n = 0 THEN v1 ELSE [v1 EXCEPT !.traps[n].ur = t]

SetLowerLeft(v, t, n) ==
    LET v1 == [v EXCEPT !.traps[t].ll = n]
    IN IF n = 0 THEN v1 ELSE [v1 EXCEPT !.traps[n].lr = t]

SetLowerRight(v, t, n) ==
    LET v1 == [v EXCEPT !.traps[t].lr = n]
    IN IF n = 0 THEN v1 ELSE [v1 EXCEPT !.traps[n].ll = t]

\* a statement that leaves the upper left neighbor of t as it is
TakeUpperLeftSkipped(v, t, face) == v

\* t.upper_left_neighbor = face.upper_left_neighbor and the three like it: the
\* neighbor of face is read when the statement runs
TakeUpperLeft(v, t, face) == SetUpperLeft(v, t, v.traps[face].ul)

TakeLowerLeft(v, t, face) == SetLowerLeft(v, t, v.traps[face].ll)

TakeUpperRight(v, t, face) == SetUpperRight(v, t, v.traps[face].ur)

TakeLowerRight(v, t, face) == SetLowerRight(v, t, v.traps[face].lr)

\* a first if that makes a left trapezoid also for an endpoint that is the
\* left point of face
PartitionLeftAlways(v, face, s, top, bottom) ==
    IF HorizontalOrientation(v.segs[s].l, v.traps[face].lp) = "LEFT"
    THEN [v |-> [v EXCEPT !.traps[top].lp = v.traps[face].lp,
                          !.traps[bottom].lp = v.traps[face].lp],
          left |-> 0]
    ELSE [v |-> SetLowerRight(
                    TakeLowerLeft(
                        TakeUpperLeft(
                            SetUpperRight(
                                NewVDFace(v, v.traps[face].top, v.traps[face].bottom,
                                          v.traps[face].lp, v.segs[s].l),
                                Len(v.traps) + 1, top),
                            Len(v.traps) + 1, face),
                        Len(v.traps) + 1, face),
                    Len(v.traps) + 1, bottom),
          left |-> Len(v.traps) + 1]

\* the first if of _partition_trapezoid (lines 253-267) on the arena that
\* holds trapezoid_top and trapezoid_bottom: the arena it leaves and
\* trapezoid_left (0 for None)
PartitionLeft(v, face, s, top, bottom) ==
    IF HorizontalOrientation(v.segs[s].l, v.traps[face].lp) = "LEFT"
    THEN [v |-> [v EXCEPT !.traps[top].lp = v.traps[face].lp,
                          !.traps[bottom].lp = v.traps[face].lp],
          left |-> 0]
    ELSE IF HorizontalOrientation(v.segs[s].l, v.traps[face].lp) = "EQUAL"
    THEN [v |-> TakeLowerLeft(TakeUpperLeft(v, top, face), bottom, face), left |-> 0]
    ELSE [v |-> SetLowerRight(
                    TakeLowerLeft(
                        TakeUpperLeft(
                            SetUpperRight(
                                NewVDFace(v, v.traps[face].top, v.traps[face].bottom,
                                          v.traps[face].lp, v.segs[s].l),
                                Len(v.traps) + 1, top),
                            Len(v.traps) + 1, face),
                        Len(v.traps) + 1, face),
                    Len(v.traps) + 1, bottom),
          left |-> Len(v.traps) + 1]

\* the second if of _partition_trapezoid (lines 269-283) on what the first
\* left: the arena and the four trapezoids
PartitionRight(r, face, s, top, bottom) ==
    IF HorizontalOrientation(r.v.segs[s].r, r.v.traps[face].rp) = "RIGHT"
    THEN [v |-> [r.v EXCEPT !.traps[top].rp = r.v.traps[face].rp,
                            !.traps[bottom].rp = r.v.traps[face].rp],
          left |-> r.left, top |-> top, bottom |-> bottom, right |-> 0]
    ELSE IF HorizontalOrientation(r.v.segs[s].r, r.v.traps[face].rp) = "EQUAL"
    THEN [v |-> TakeLowerRight(TakeUpperRight(r.v, top, face), bottom, face),
          left |-> r.left, top |-> top, bottom |-> bottom, right |-> 0]
    ELSE [v |-> TakeLowerRight(
                    SetLowerLeft(
                        SetUpperLeft(
                            TakeUpperRight(
                                NewVDFace(r.v, r.v.traps[face].top, r.v.traps[face].bottom,
                                          r.v.segs[s].r, r.v.traps[face].rp),
                                Len(r.v.traps) + 1, face),
                            Len(r.v.traps) + 1, top),
                        Len(r.v.traps) + 1, bottom),
                    Len(r.v.traps) + 1, face),
          left |-> r.left, top |-> top, bottom |-> bottom, right |-> Len(r.v.traps) + 1]

\* VerticalDecomposition._partition_trapezoid(face, line_segment): the new
\* arena and the four trapezoids (0 for None)
PartitionTrapezoid(v, face, s) ==
    PartitionRight(
        PartitionLeft(
            NewVDFace(NewVDFace(v, v.traps[face].top, s, v.segs[s].l, v.segs[s].r),
                      s, v.traps[face].bottom, v.segs[s].l, v.segs[s].r),
            face, s, Len(v.traps) + 1, Len(v.traps) + 2),
        face, s, Len(v.traps) + 1, Len(v.traps) + 2)

\* p.vertical_orientation(line_segment) for segment s of the arena
VOrient(v, p, s) == VerticalOrientation(p, v.segs[s].l, v.segs[s].r)

\* last.right_point = trapezoid.right_point
TakeRightPoint(v, last, trapezoid) == [v EXCEPT !.traps[last].rp = v.traps[trapezoid].rp]

\* lines 292-295 and 305-308 of _merge_trapezoids: last takes over the right
\* neighbors of trapezoid when the next trapezoid lies on the other side
\* (other_side is BELOW for last_below, ABOVE for last_above), and its right
\* point in any case
MergeInto(v, last, trapezoid, s, other_side) ==
    TakeRightPoint(IF VOrient(v, v.traps[trapezoid].rp, s) = other_side
                   THEN TakeUpperRight(TakeLowerRight(v, last, trapezoid), last, trapezoid)
                   ELSE v,
                   last, trapezoid)

\* lines 298-299: "Shrink the intersected trapezoid to be above the LS"
ShrinkAbove(v, trapezoid, s, last_above) ==
    SetLowerLeft([v EXCEPT !.traps[trapezoid].bottom = s], trapezoid, last_above)

\* lines 311-312: "Shrink the intersected trapezoid to be below the LS"
ShrinkBelow(v, trapezoid, s, last_below) ==
    SetUpperLeft([v EXCEPT !.traps[trapezoid].top = s], trapezoid, last_below)

\* VerticalDecomposition._merge_trapezoids(trapezoid, line_segment, last_above,
\* last_below); status "RuntimeError" when the left point lies on the line
MergeTrapezoids(v, trapezoid, s, last_above, last_below) ==
    IF VOrient(v, v.traps[trapezoid].lp, s) = "ABOVE"
    THEN [v |-> ShrinkAbove(MergeInto(v, last_below, trapezoid, s, "BELOW"),
                            trapezoid, s, last_above),
          status |-> "ok", above |-> trapezoid, below |-> last_below]
    ELSE IF VOrient(v, v.traps[trapezoid].lp, s) = "BELOW"
    THEN [v |-> ShrinkBelow(MergeInto(v, last_above, trapezoid, s, "ABOVE"),
                            trapezoid, s, last_below),
          status |-> "ok", above |-> last_above, below |-> trapezoid]
    ELSE [v |-> v, status |-> "RuntimeError", above |-> last_above, below |-> last_below]

RECURSIVE MergeAll(_, _, _, _)
\* the for loop of update (lines 214-215) over the trapezoids between the
\* first and the last; r carries the arena, last_face_above, last_face_below
MergeAll(r, inter, s, i) ==
    IF i > Len(inter) \/ r.status # "ok" THEN r
    ELSE MergeAll(MergeTrapezoids(r.v, inter[i], s, r.above, r.below), inter, s, i + 1)

RECURSIVE Intersected(_, _, _, _, _)
\* the while loop of update (lines 170-176): the trapezoids the segment runs
\* through after left_point_face; ok is FALSE when the walk steps onto None
\* (an AttributeError) or never ends
Intersected(v, s, last, acc, fuel) ==
    IF last = 0 \/ fuel = 0 THEN [ok |-> FALSE, list |-> acc]
    ELSE IF HorizontalOrientation(v.segs[s].r, v.traps[last].rp) = "RIGHT"
    THEN LET nx == IF VOrient(v, v.traps[last].rp, s) = "BELOW"
                   THEN v.traps[last].ur ELSE v.traps[last].lr
         IN Intersected(v, s, nx, Append(acc, nx), fuel - 1)
    ELSE [ok |-> TRUE, list |-> acc]

\* the trapezoids of a list that are not None
NotNone(list) == FilterSeq(list, [i \in DOMAIN list |-> list[i] # 0])

\* an append that leaves the old trapezoid in _trapezoids
ReplaceLiveKeepOld(v, old, new) ==
    [v EXCEPT !.live = @ \o (IF new # 0 THEN <<new>> ELSE <<>>)]

\* _trapezoids.remove(old) followed by the append of a trapezoid that may be
\* None (lines 195-197 and 208-210)
ReplaceLive(v, old, new) ==
    [v EXCEPT !.live = RemoveFirst(@, old) \o (IF new # 0 THEN <<new>> ELSE <<>>)]

\* the simple case of update (lines 181-184) for the partition p
UpdateSimple(p, left_point_face) ==
    [v |-> [p.v EXCEPT !.live = RemoveFirst(@, left_point_face)
                                  \o NotNone(<<p.left, p.top, p.bottom, p.right>>)],
     status |-> "ok", unvalid |-> <<left_point_face>>,
     new |-> <<p.left, p.top, p.bottom, p.right>>]

\* lines 222-227: "Merge trapezoids below the LS and discard right_face_below"
MergeLastBelow(v, s, last_above, last_below, q, upper_left) ==
    SetUpperLeft(
        SetLowerRight(
            SetUpperRight(
                TakeLowerRight([v EXCEPT !.traps[last_below].rp = v.segs[s].r],
                               last_below, q.bottom),
                last_below, 0),
            last_above, q.top),
        q.top, upper_left)

\* lines 233-238: "Merge trapezoids above the LS and discard right_face_above"
MergeLastAbove(v, s, last_above, last_below, q, lower_left) ==
    SetLowerLeft(
        SetUpperRight(
            TakeUpperRight(
                SetLowerRight([v EXCEPT !.traps[last_above].rp = v.segs[s].r],
                              last_above, 0),
                last_above, q.top),
            last_below, q.bottom),
        q.bottom, lower_left)

\* lines 247-248: the three trapezoids join _trapezoids and update returns
UpdateReturn(v, p, q, kept_face, unvalid) ==
    [v |-> [v EXCEPT !.live = @ \o <<p.top, p.bottom, kept_face>>],
     status |-> "ok", unvalid |-> unvalid,
     new |-> <<p.left, p.top, p.bottom, kept_face, q.right>>]

\* lines 217-248: "Merge with (already split) last trapezoid", for what the
\* loop over the intersected trapezoids left in m
UpdateMergeLast(m, s, p, q, unvalid, upper_left, lower_left) ==
    IF m.status # "ok"
    THEN [v |-> m.v, status |-> "RuntimeError", unvalid |-> <<>>, new |-> <<>>]
    ELSE IF VOrient(m.v, m.v.traps[q.top].lp, s) = "ABOVE"
    THEN UpdateReturn(MergeLastBelow(m.v, s, m.above, m.below, q, upper_left),
                      p, q, q.top, unvalid)
    ELSE IF VOrient(m.v, m.v.traps[q.top].lp, s) = "BELOW"
    THEN UpdateReturn(MergeLastAbove(m.v, s, m.above, m.below, q, lower_left),
                      p, q, q.bottom, unvalid)
    ELSE [v |-> m.v, status |-> "RuntimeError", unvalid |-> <<>>, new |-> <<>>]

\* lines 207-248: the last trapezoid is partitioned into q, and the
\* trapezoids between the first and the last are merged along the segment
UpdateLast(q, s, p, right_point_face, inter, unvalid, upper_left, lower_left) ==
    UpdateMergeLast(
        MergeAll([v |-> ReplaceLive(q.v, right_point_face, q.right), status |-> "ok",
                  above |-> p.top, below |-> p.bottom],
                 inter, s, 1),
        s, p, q, unvalid, upper_left, lower_left)

\* lines 199-248: "Setting the top/bottom most neighbor" of the first partition
\* p, on the arena v that holds it
UpdateFirst(v, s, p, left_point_face, right_point_face, inter, upper_right, lower_right, upper_left, lower_left) ==
    IF VOrient(v, v.traps[left_point_face].rp, s) = "ON"
    THEN [v |-> v, status |-> "RuntimeError", unvalid |-> <<>>, new |-> <<>>]
    ELSE UpdateLast(
             PartitionTrapezoid(
                 IF VOrient(v, v.traps[left_point_face].rp, s) = "ABOVE"
                 THEN SetUpperRight(v, p.top, upper_right)
                 ELSE SetLowerRight(v, p.bottom, lower_right),
                 right_point_face, s),
             s, p, right_point_face, inter,
             <<left_point_face>> \o inter \o <<right_point_face>>,
             upper_left, lower_left)

\* lines 186-248: the segment runs through two or more trapezoids; the
\* neighbors of the first and the last are retained, then the first is
\* partitioned into p
UpdateThrough(v, s, p, left_point_face, right_point_face, inter) ==
    UpdateFirst(ReplaceLive(p.v, left_point_face, p.left), s, p,
                left_point_face, right_point_face, inter,
                v.traps[left_point_face].ur, v.traps[left_point_face].lr,
                v.traps[right_point_face].ul, v.traps[right_point_face].ll)

\* lines 178-248 for the list walk of intersected trapezoids and the partition
\* p of left_point_face
UpdateWalked(v, s, left_point_face, walk, p) ==
    IF ~walk.ok
    THEN [v |-> v, status |-> "AttributeError", unvalid |-> <<>>, new |-> <<>>]
    ELSE IF walk.list = <<>>
    THEN UpdateSimple(p, left_point_face)
    ELSE UpdateThrough(v, s, p, left_point_face, walk.list[Len(walk.list)],
                       SubSeq(walk.list, 1, Len(walk.list) - 1))

\* lines 163-248 on the arena v that holds the segment in line_segments
UpdateAppended(v, s, left_point_face) ==
    UpdateWalked(v, s, left_point_face,
                 Intersected(v, s, left_point_face, <<>>, Len(v.traps) + 1),
                 PartitionTrapezoid(v, left_point_face, s))

\* VerticalDecomposition.update(line_segment, left_point_face): the arena it
\* leaves, the exception it raises if any, and the two lists it returns
VDUpdate(v, s, left_point_face) ==
    UpdateAppended([v EXCEPT !.lsegs = Append(@, s)], s, left_point_face)

(***************************************************************************)
(* The search structure: an arena of nodes, kind "X", "Y" or "L" (leaf),   *)
(* with _left, _right and the _parents list.                               *)
(***************************************************************************)
\* VDXNode(point), VDYNode(line_segment): a node without children or parents
NewInnerNode(v, kind, point, seg) ==
    [v EXCEPT !.nodes = Append(@, [kind |-> kind, point |-> point, seg |-> seg, face |-> 0,
                                   left |-> 0, right |-> 0, parents |-> <<>>])]

\* VDLeaf(face): the leaf, and face.search_leaf set to it
VDLeaf(v, face) ==
    [v EXCEPT !.nodes = Append(@, [kind |-> "L", point |-> NoPoint, seg |-> 0, face |-> face,
                                   left |-> 0, right |-> 0, parents |-> <<>>]),
              !.traps[face].leaf = Len(v.nodes) + 1]

\* a parent setter that keeps a single parent per node
SetParentSingle(v, n, parent) ==
    IF parent = 0 \/ InSeq(v.nodes[n].parents, parent) THEN v
    ELSE [v EXCEPT !.nodes[n].parents = <<parent>>]

\* the parent setter of VDNode
SetParent(v, n, parent) ==
    IF parent = 0 \/ InSeq(v.nodes[n].parents, parent) THEN v
    ELSE [v EXCEPT !.nodes[n].parents = Append(@, parent)]

\* a child setter that leaves the parents of the child as they are
SetChildOnly(v, n, c) == [v EXCEPT !.nodes[n].left = c]

\* the setters left / lower (both write _left) and right / upper (_right)
SetLeftChild(v, n, c) ==
    LET a == [v EXCEPT !.nodes[n].left = c]
    IN IF c # 0 THEN SetParent(a, c, n) ELSE a

SetRightChild(v, n, c) ==
    LET a == [v EXCEPT !.nodes[n].right = c]
    IN IF c # 0 THEN SetParent(a, c, n) ELSE a

RECURSIVE ReplaceInParents(_, _, _, _, _)
\* the for loop of replace_with over the parents of self
ReplaceInParents(v, parents, i, self, new_node) ==
    IF i > Len(parents) THEN [v |-> v, status |-> "ok"]
    ELSE IF v.nodes[parents[i]].left = self
    THEN ReplaceInParents([v EXCEPT !.nodes[parents[i]].left = new_node],
                          parents, i + 1, self, new_node)
    ELSE IF v.nodes[parents[i]].right = self
    THEN ReplaceInParents([v EXCEPT !.nodes[parents[i]].right = new_node],
                          parents, i + 1, self, new_node)
    ELSE [v |-> v, status |-> "Exception"]

\* lines 400-403 of replace_with: new_node takes the parents of self
TakeParents(r, self, new_node, parents) ==
    IF r.status # "ok" THEN [v |-> r.v, status |-> r.status, success |-> FALSE]
    ELSE [v |-> [r.v EXCEPT !.nodes[new_node].parents = parents,
                            !.nodes[self].parents = <<>>],
          status |-> "ok", success |-> TRUE]

\* a replace_with that writes the child slot of the first parent alone
ReplaceWithFirstParent(v, self, new_node) ==
    IF v.nodes[self].parents = <<>> THEN [v |-> v, status |-> "ok", success |-> FALSE]
    ELSE TakeParents(ReplaceInParents(v, SubSeq(v.nodes[self].parents, 1, 1), 1, self, new_node),
                     self, new_node, v.nodes[self].parents)

\* VDNode.replace_with(new_node); success is the value it returns
ReplaceWith(v, self, new_node) ==
    IF v.nodes[self].parents = <<>> THEN [v |-> v, status |-> "ok", success |-> FALSE]
    ELSE TakeParents(ReplaceInParents(v, v.nodes[self].parents, 1, self, new_node),
                     self, new_node, v.nodes[self].parents)

RECURSIVE Search(_, _, _, _, _)
\* node.search(point, line_segment) for VDXNode, VDYNode and VDLeaf; s = 0 is
\* line_segment None; the result is the trapezoid, or 0 for an AttributeError
\* (the one raised at a y-node, or a search on a child that is None)
Search(v, node, point, s, fuel) ==
    IF node = 0 \/ fuel = 0 THEN 0
    ELSE LET n == v.nodes[node] IN
         IF n.kind = "L" THEN n.face
         ELSE IF n.kind = "X"
         THEN IF HorizontalOrientation(point, n.point) = "LEFT"
              THEN Search(v, n.left, point, s, fuel - 1)
              ELSE Search(v, n.right, point, s, fuel - 1)
         ELSE LET cr == VOrient(v, point, n.seg) IN
              IF cr = "ABOVE" \/ (cr = "ON" /\ (s = 0 \/ SlopeGreater(v.segs[s], v.segs[n.seg])))
              THEN Search(v, n.right, point, s, fuel - 1)
              ELSE IF cr = "BELOW" \/ (cr = "ON" /\ SlopeGreater(v.segs[n.seg], v.segs[s]))
              THEN Search(v, n.left, point, s, fuel - 1)
              ELSE 0

\* lines 587-589 of _build_subtree: the y-node with its upper and lower child
BuildYNode(v, s, upper, lower) ==
    SetLeftChild(SetRightChild(NewInnerNode(v, "Y", NoPoint, s), Len(v.nodes) + 1, upper),
                 Len(v.nodes) + 1, lower)

\* an x-node of the right endpoint with the fourth leaf as its left child
BuildRightXNodeSwapped(r, s, leaf) ==
    IF leaf = 0 THEN r
    ELSE [v |-> SetRightChild(
                    SetLeftChild(NewInnerNode(r.v, "X", r.v.segs[s].r, 0),
                                 Len(r.v.nodes) + 1, leaf),
                    Len(r.v.nodes) + 1, r.tree),
          tree |-> Len(r.v.nodes) + 1]

\* lines 590-594: an x-node of the right endpoint above the tree r.tree, when
\* a fourth leaf is given
BuildRightXNode(r, s, leaf) ==
    IF leaf = 0 THEN r
    ELSE [v |-> SetRightChild(
                    SetLeftChild(NewInnerNode(r.v, "X", r.v.segs[s].r, 0),
                                 Len(r.v.nodes) + 1, r.tree),
                    Len(r.v.nodes) + 1, leaf),
          tree |-> Len(r.v.nodes) + 1]

\* lines 595-599: an x-node of the left endpoint above the tree r.tree, when
\* a first leaf is given
BuildLeftXNode(r, s, leaf) ==
    IF leaf = 0 THEN r
    ELSE [v |-> SetRightChild(
                    SetLeftChild(NewInnerNode(r.v, "X", r.v.segs[s].l, 0),
                                 Len(r.v.nodes) + 1, leaf),
                    Len(r.v.nodes) + 1, r.tree),
          tree |-> Len(r.v.nodes) + 1]

\* VDSearchStructure._build_subtree(line_segment, leafs) for 3 or 4 leafs
BuildSubtree(v, s, leafs) ==
    BuildLeftXNode(
        BuildRightXNode([v |-> BuildYNode(v, s, leafs[2], leafs[3]), tree |-> Len(v.nodes) + 1],
                        s, IF Len(leafs) > 3 THEN leafs[4] ELSE 0),
        s, leafs[1])

\* the left point of the trapezoid of a leaf, against the segment
LeafLeftOrientation(v, leaf, s) == VOrient(v, v.traps[v.nodes[leaf].face].lp, s)

RECURSIVE ReplaceMiddle(_, _, _, _, _, _)
\* a loop body that hangs the y-node itself where the kept leaf belongs
HangUnderItself(v, tree, s, mid, i, opposite_leaf, opposite_leaf_orientation, unvalid_leaf_orientation) ==
    ReplaceMiddle(IF unvalid_leaf_orientation = "ABOVE"
                  THEN SetLeftChild(SetRightChild(v, tree, tree), tree, opposite_leaf)
                  ELSE SetLeftChild(SetRightChild(v, tree, opposite_leaf), tree, tree),
                  s, mid, i + 1, opposite_leaf, opposite_leaf_orientation)

\* lines 560-565: the children of the y-node tree, and the next pass of the
\* loop
HangLeafs(v, tree, s, mid, i, opposite_leaf, opposite_leaf_orientation, unvalid_leaf_orientation) ==
    ReplaceMiddle(IF unvalid_leaf_orientation = "ABOVE"
                  THEN SetLeftChild(SetRightChild(v, tree, mid[i]), tree, opposite_leaf)
                  ELSE SetLeftChild(SetRightChild(v, tree, opposite_leaf), tree, mid[i]),
                  s, mid, i + 1, opposite_leaf, opposite_leaf_orientation)

\* lines 556-558: opposite_leaf becomes unvalid_leafs[i-1] when the two
\* orientations are equal; index i - 1 of a Python list is its last element
\* when i is 0 (here: mid[Len(mid)] when i is 1)
MaintainOpposite(v, tree, s, mid, i, opposite_leaf, opposite_leaf_orientation, unvalid_leaf_orientation) ==
    IF unvalid_leaf_orientation = opposite_leaf_orientation
    THEN HangLeafs(v, tree, s, mid, i, mid[IF i = 1 THEN Len(mid) ELSE i - 1],
                   LeafLeftOrientation(v, mid[IF i = 1 THEN Len(mid) ELSE i - 1], s),
                   unvalid_leaf_orientation)
    ELSE HangLeafs(v, tree, s, mid, i, opposite_leaf, opposite_leaf_orientation,
                   unvalid_leaf_orientation)

\* lines 552-565 for what replace_with left in r
ReplacedMiddle(r, tree, s, mid, i, opposite_leaf, opposite_leaf_orientation) ==
    IF r.status # "ok"
    THEN [v |-> r.v, status |-> r.status, opposite_leaf |-> opposite_leaf,
          opposite_leaf_orientation |-> opposite_leaf_orientation]
    ELSE MaintainOpposite(r.v, tree, s, mid, i, opposite_leaf, opposite_leaf_orientation,
                          LeafLeftOrientation(r.v, mid[i], s))

\* the for loop of VDSearchStructure.update (lines 551-565) over the leafs
\* between the first and the last
ReplaceMiddle(v, s, mid, i, opposite_leaf, opposite_leaf_orientation) ==
    IF i > Len(mid)
    THEN [v |-> v, status |-> "ok", opposite_leaf |-> opposite_leaf,
          opposite_leaf_orientation |-> opposite_leaf_orientation]
    ELSE ReplacedMiddle(ReplaceWith(NewInnerNode(v, "Y", NoPoint, s), mid[i], Len(v.nodes) + 1),
                        Len(v.nodes) + 1, s, mid, i, opposite_leaf, opposite_leaf_orientation)

\* the value replace_with returned is dropped
Replaced(r) == [v |-> r.v, status |-> r.status]

\* an update that leaves the root as it was
SetRootKept(r, tree) ==
    [v |-> r.v, status |-> r.status]

\* lines 530-531: the root is set when the replaced leaf had no parent
SetRoot(r, tree) ==
    [v |-> IF r.status = "ok" /\ ~r.success THEN [r.v EXCEPT !.root = tree] ELSE r.v,
     status |-> r.status]

\* the simple case of update (lines 526-532) for the subtree b
UpdateRootCase(b, leaf) == SetRoot(ReplaceWith(b.v, leaf, b.tree), b.tree)

\* new_leafs[-2]._face
KeptFace(v, new_leafs) == v.traps[v.nodes[new_leafs[Len(new_leafs) - 1]].face]

\* lines 575-581: "Replace the leaf containing the right endpoint"
ReplaceRightLeaf(b, right_endpoint_leaf) ==
    Replaced(ReplaceWith(b.v, right_endpoint_leaf, b.tree))

UpdateRight(v, s, right_endpoint_leaf, new_leafs, opposite_leaf) ==
    ReplaceRightLeaf(
        BuildSubtree(v, s,
            IF KeptFace(v, new_leafs).bottom = s
            THEN <<0, new_leafs[Len(new_leafs) - 1], opposite_leaf, new_leafs[Len(new_leafs)]>>
            ELSE <<0, opposite_leaf, new_leafs[Len(new_leafs) - 1], new_leafs[Len(new_leafs)]>>),
        right_endpoint_leaf)

\* lines 567-581: "Maintain opposite leaf one more time", for what the loop
\* left in m
UpdateAfterMiddle(m, s, mid, right_endpoint_leaf, new_leafs) ==
    IF m.status # "ok" THEN [v |-> m.v, status |-> m.status]
    ELSE UpdateRight(m.v, s, right_endpoint_leaf, new_leafs,
                     IF VOrient(m.v, KeptFace(m.v, new_leafs).lp, s) = m.opposite_leaf_orientation
                     THEN mid[Len(mid)]
                     ELSE m.opposite_leaf)

\* lines 545-548: "Init opposite_leaf"
FirstOpposite(v, s, mid, new_leafs) ==
    IF v.traps[v.nodes[mid[1]].face].bottom = s THEN new_leafs[3] ELSE new_leafs[2]

\* lines 541-581 for what replacing the left endpoint leaf left in r
UpdateAfterLeft(r, s, mid, right_endpoint_leaf, new_leafs) ==
    IF r.status # "ok" THEN [v |-> r.v, status |-> r.status]
    ELSE IF mid # <<>>
    THEN UpdateAfterMiddle(
             ReplaceMiddle(r.v, s, mid, 1, FirstOpposite(r.v, s, mid, new_leafs),
                           VOrient(r.v, r.v.traps[r.v.nodes[FirstOpposite(r.v, s, mid, new_leafs)].face].rp, s)),
             s, mid, right_endpoint_leaf, new_leafs)
    ELSE UpdateRight(r.v, s, right_endpoint_leaf, new_leafs,
                     IF KeptFace(r.v, new_leafs).bottom = s THEN new_leafs[3] ELSE new_leafs[2])

\* lines 536-581 for the subtree b built for the left endpoint
UpdateLeft(b, s, unvalid_leafs, new_leafs) ==
    UpdateAfterLeft(ReplaceWith(b.v, unvalid_leafs[1], b.tree), s,
                    SubSeq(unvalid_leafs, 2, Len(unvalid_leafs) - 1),
                    unvalid_leafs[Len(unvalid_leafs)], new_leafs)

\* VDSearchStructure.update(line_segment, unvalid_leafs, new_leafs)
SearchStructureUpdate(v, s, unvalid_leafs, new_leafs) ==
    IF Len(unvalid_leafs) = 1
    THEN UpdateRootCase(BuildSubtree(v, s, SubSeq(new_leafs, 1, 4)), unvalid_leafs[1])
    ELSE UpdateLeft(BuildSubtree(v, s, SubSeq(new_leafs, 1, 3)), s, unvalid_leafs, new_leafs)

RECURSIVE MakeLeafs(_, _, _, _)
\* the list new_leafs of insert: a VDLeaf per trapezoid, None stays None
MakeLeafs(v, new_trapezoids, i, acc) ==
    IF i > Len(new_trapezoids) THEN [v |-> v, leafs |-> acc]
    ELSE IF new_trapezoids[i] = 0 THEN MakeLeafs(v, new_trapezoids, i + 1, Append(acc, 0))
    ELSE MakeLeafs(VDLeaf(v, new_trapezoids[i]), new_trapezoids, i + 1,
                   Append(acc, Len(v.nodes) + 1))

\* line 100 of insert: the search structure is updated with the leafs
InsertLeafs(ml, s, unvalid_leafs) == SearchStructureUpdate(ml.v, s, unvalid_leafs, ml.leafs)

\* lines 98-100 for what update left in u: "2. Update the search structure"
InsertUpdated(u, s) ==
    IF u.status # "ok" THEN [v |-> u.v, status |-> u.status]
    ELSE InsertLeafs(MakeLeafs(u.v, u.new, 1, <<>>), s,
                     [i \in DOMAIN u.unvalid |-> u.v.traps[u.unvalid[i]].leaf])

\* lines 95-100 for the trapezoid the search returned, 0 when it raised
InsertAt(v, s, left_point_face) ==
    IF left_point_face = 0 THEN [v |-> v, status |-> "AttributeError"]
    ELSE InsertUpdated(VDUpdate(v, s, left_point_face), s)

\* PointLocation.insert(line_segment) for segment s of the arena
Insert(v, s) == InsertAt(v, s, Search(v, v.root, v.segs[s].l, s, Len(v.nodes) + 1))

\* the PointLocation after insert(s) returned or raised: s is no longer
\* waiting
Inserted(r, pending, s) == [r.v EXCEPT !.pending = pending \ {s}, !.status = r.status]

\* PointLocation.dcel_prepocessing(dcel): one segment per edge, taken from the
\* half-edge that leaves the left endpoint, with that half-edge's face
DcelPreprocessing(d) ==
    LET used == FilterSeq([e \in DOMAIN d.origin |-> e],
                          [e \in DOMAIN d.origin |-> d.origin[e] # Destination(d, e)
                                                     /\ LexLess(OPoint(d, e), DPoint(d, e))])
    IN [i \in DOMAIN used |-> VDLineSegment(OPoint(d, used[i]), DPoint(d, used[i]),
                                            d.iface[used[i]])]

\* the face object that bottom.above_face holds after
\* clear_vertical_decomposition: the outer face of a DCEL made on the spot,
\* which is not a face of the caller's DCEL
FreshOuterFace == -1

\* VerticalDecomposition(bounding_box, dcel) and VDSearchStructure(initial_face)
\* as clear_vertical_decomposition builds them, with the preprocessed
\* segments of d waiting to be inserted
ClearVerticalDecomposition(bounding_box, d) ==
    LET upper_left == <<bounding_box[1][1], bounding_box[2][2]>>
        upper_right == <<bounding_box[2][1], bounding_box[2][2]>>
        lower_left == <<bounding_box[1][1], bounding_box[1][2]>>
        lower_right == <<bounding_box[2][1], bounding_box[1][2]>>
        top == VDLineSegment(upper_left, upper_right, 0)
        bottom == VDLineSegment(lower_left, lower_right, FreshOuterFace)
        segments == DcelPreprocessing(d)
        v0 == [box |-> bounding_box,
               segs |-> <<top, bottom>> \o segments, traps |-> <<>>, live |-> <<>>,
               lsegs |-> <<>>, nodes |-> <<>>, root |-> 0,
               pending |-> {i + 2 : i \in DOMAIN segments}, status |-> "ok"]
        v1 == [NewVDFace(v0, 1, 2, upper_left, upper_right) EXCEPT !.live = <<1>>]
    IN [VDLeaf(v1, 1) EXCEPT !.root = 1]

\* VDSearchStructure.query(point): the DCEL face returned; status
\* "AttributeError" when the search fails or the face found is None
Query(v, point) ==
    LET vd_face == Search(v, v.root, point, 0, Len(v.nodes) + 1)
        dcel_face == v.segs[v.traps[vd_face].bottom].face
    IN IF vd_face = 0 \/ dcel_face = 0
       THEN [p |-> point, face |-> 0, status |-> "AttributeError"]
       ELSE [p |-> point, face |-> dcel_face, status |-> "ok"]

(***************************************************************************)
(* Callers of PointLocation: the constructor builds the structure over a   *)
(* DCEL, inserting the shuffled segments one at a time; queries follow.    *)
(***************************************************************************)
BoundingBox == <<<<0, 0>>, <<10, 10>>>>

\* the DCELs handed to PointLocation have at most MaxSegments edges
MaxSegments == 6

\* a triangle inside a triangle, and a square cut by a diagonal
NestedPoints == <<PA, PB, PC, PD, PE, PF>>
NestedEdges == <<<<0, 1>>, <<1, 2>>, <<2, 0>>, <<3, 4>>, <<4, 5>>, <<5, 3>>>>
DiagonalPoints == <<PD, PE, PG, PF>>
DiagonalEdges == <<<<0, 1>>, <<1, 2>>, <<2, 3>>, <<3, 0>>, <<0, 2>>>>

PLConstructorArgs ==
    {[points |-> TrianglePoints, edges |-> SubSeq(TriangleEdges, 1, k)] :
        k \in 0..Min2(MaxSegments, Len(TriangleEdges))}
    \cup {[points |-> NestedPoints, edges |-> SubSeq(NestedEdges, 1, k)] :
        k \in {Min2(MaxSegments, Len(NestedEdges))}}
    \cup {[points |-> DiagonalPoints, edges |-> SubSeq(DiagonalEdges, 1, k)] :
        k \in {Min2(MaxSegments, Len(DiagonalEdges))}}

PLConstructions == {Construct(a.points, a.edges) : a \in PLConstructorArgs}

PLInputs == {r.d : r \in {c \in PLConstructions : c.status = "ok"}}

\* probe points inside the bounding box, on no segment of the DCEL; some
\* share their x with a vertex
ProbePoints == Universe \cup {<<5, 3>>, <<2, 7>>, <<4, 5>>, <<9, 5>>, <<3, 5>>}

Probes(d) == {p \in ProbePoints : OffEdges(d, p)}

InitPL ==
    /\ dcel \in PLInputs
    /\ pl = ClearVerticalDecomposition(BoundingBox, dcel)
    /\ ret = NoRet /\ steps = 0 /\ qres = NoQuery

\* one pass of the loop of build_vertical_decomposition: random.shuffle makes
\* any segment not yet inserted the next one
InsertStep ==
    /\ pl.status = "ok"
    /\ \E s \in pl.pending : pl' = Inserted(Insert(pl, s), pl.pending, s)
    /\ UNCHANGED <<dcel, ret, steps, qres>>

\* a query on the built structure
QueryStep ==
    /\ pl.status = "ok" /\ pl.pending = {}
    /\ \E p \in Probes(dcel) : qres' = Query(pl, p)
    /\ UNCHANGED <<dcel, ret, steps, pl>>

NextPL == InsertStep \/ QueryStep

SpecPL == InitPL /\ [][NextPL]_vars

(***************************************************************************)
(* Callers that use the public methods of a PointLocation: insert with     *)
(* segments of their own on a structure made without a DCEL, query with    *)
(* any point inside the bounding box, and clear.                           *)
(***************************************************************************)
\* the bounding box of the structures made without a DCEL
ScenarioBox == <<<<0, 0>>, <<40, 40>>>>

\* at most MaxCalls calls of insert and clear follow the constructor
MaxCalls == 3

\* the segments callers pass to insert: three segments in general position,
\* two that share an endpoint with one of them, and three that lie on the
\* line of one of them and overlap it
CallerSegments ==
    {<<<<2, 6>>, <<15, 4>>>>, <<<<12, 2>>, <<18, 2>>>>, <<<<8, 8>>, <<20, 8>>>>,
     <<<<2, 6>>, <<8, 8>>>>, <<<<15, 4>>, <<20, 8>>>>,
     <<<<10, 2>>, <<15, 2>>>>, <<<<14, 2>>, <<16, 2>>>>, <<<<8, 8>>, <<30, 8>>>>}

\* the points callers pass to query
CallerProbes ==
    ProbePoints \cup {<<10, 7>>, <<10, 8>>, <<14, 2>>, <<13, 3>>, <<8, 5>>, <<12, 5>>,
                      <<15, 1>>, <<8, 10>>, <<30, 30>>, <<5, 7>>}

\* p lies inside the rectangle, not on its boundary
InBox(p, box) ==
    /\ box[1][1] < p[1] /\ p[1] < box[2][1]
    /\ box[1][2] < p[2] /\ p[2] < box[2][2]

\* the segments p-q and l-r lie on one line and share more than a point
CollinearOverlap(p, q, l, r) ==
    /\ PerpDot(Sub(l, p), Sub(q, p)) = 0
    /\ PerpDot(Sub(r, p), Sub(q, p)) = 0
    /\ LexLess(IF LexLess(SegLeft(p, q), SegLeft(l, r)) THEN SegLeft(l, r) ELSE SegLeft(p, q),
               IF LexLess(SegRight(p, q), SegRight(l, r)) THEN SegRight(p, q) ELSE SegRight(l, r))

\* the segment p-q equals or collinearly overlaps a segment inserted before
Overlapping(v, p, q) ==
    \E i \in DOMAIN v.lsegs : CollinearOverlap(p, q, v.segs[v.lsegs[i]].l, v.segs[v.lsegs[i]].r)

\* the precondition of insert: the segment lies inside the bounding box and
\* meets the segments inserted before in common endpoints only
Insertable(v, p, q) ==
    /\ p # q
    /\ InBox(p, v.box) /\ InBox(q, v.box)
    /\ ~Overlapping(v, p, q)
    /\ \A i \in DOMAIN v.lsegs :
          ~SegmentsCross(p, q, v.segs[v.lsegs[i]].l, v.segs[v.lsegs[i]].r)

\* PointLocation(bounding_box, dcel) as InitPL, or PointLocation(bounding_box)
\* without a DCEL
InitUse ==
    \/ InitPL
    \/ /\ dcel = EmptyDCEL
       /\ pl = ClearVerticalDecomposition(ScenarioBox, EmptyDCEL)
       /\ ret = NoRet /\ steps = 0 /\ qres = NoQuery

\* pl.insert(VDLineSegment(Point(p), Point(q))) on a structure made without a
\* DCEL: the caller's segment joins the arena and is inserted
DoInsert(p, q) ==
    /\ steps < MaxCalls
    /\ pl.status = "ok" /\ pl.pending = {}
    /\ dcel = EmptyDCEL
    /\ \E r \in {Insert([pl EXCEPT !.segs = Append(@, VDLineSegment(p, q, 0))],
                         Len(pl.segs) + 1)} :
          /\ pl' = Inserted(r, {}, Len(pl.segs) + 1)
          /\ ret' = [NoRet EXCEPT !.op = "insert", !.status = r.status, !.p = p, !.q = q]
    /\ steps' = steps + 1
    /\ qres' = NoQuery
    /\ UNCHANGED dcel

\* callers that keep the precondition of insert
ValidInsertStep ==
    /\ steps < MaxCalls
    /\ \E s \in CallerSegments : Insertable(pl, s[1], s[2]) /\ DoInsert(s[1], s[2])

\* callers that insert a segment again, or one that overlaps an inserted one
OverlapInsertStep ==
    /\ steps < MaxCalls
    /\ \E s \in CallerSegments :
          /\ InBox(s[1], pl.box) /\ InBox(s[2], pl.box)
          /\ Overlapping(pl, s[1], s[2])
          /\ DoInsert(s[1], s[2])

\* pl.clear(): clear_vertical_decomposition, then dcel.clear()
ClearPLStep ==
    /\ steps < MaxCalls
    /\ pl.pending = {}
    /\ pl.status = "ok" \/ ret.op = "insert"
    /\ pl' = ClearVerticalDecomposition(pl.box, EmptyDCEL)
    /\ dcel' = EmptyDCEL
    /\ ret' = [NoRet EXCEPT !.op = "clear"]
    /\ steps' = steps + 1
    /\ qres' = NoQuery

\* pl._search_structure.query(Point(p)) for any point inside the bounding box;
\* a query leaves the structure as it is, so one query is followed per
\* structure
QueryAnyStep ==
    /\ pl.status = "ok" /\ pl.pending = {}
    /\ qres = NoQuery
    /\ \E p \in {x \in CallerProbes : InBox(x, pl.box)} : qres' = Query(pl, p)
    /\ UNCHANGED <<dcel, ret, steps, pl>>

NextUse == InsertStep \/ QueryAnyStep \/ ValidInsertStep \/ OverlapInsertStep \/ ClearPLStep

SpecUse == InitUse /\ [][NextUse]_vars

RECURSIVE InsertAll(_, _, _)
\* the for loop of build_vertical_decomposition over the segments in the
\* order the shuffle left them in
InsertAll(v, order, i) ==
    IF i > Len(order) \/ v.status # "ok" THEN v
    ELSE InsertAll(Inserted(Insert(v, order[i]), v.pending, order[i]), order, i + 1)

\* PointLocation(bounding_box, dcel) when the shuffle leaves the segments in
\* the order of dcel.edges
BuiltInEdgeOrder(bounding_box, d) ==
    LET v == ClearVerticalDecomposition(bounding_box, d)
    IN InsertAll(v, [i \in 1..(Len(v.segs) - 2) |-> i + 2], 1)

(***************************************************************************)
(* Properties of the point location structure                              *)
(***************************************************************************)
Live(v) == Range(v.live)

\* every neighbor link of a live trapezoid is answered by the opposite link
MutualLinks(v) ==
    \A a \in Live(v) :
        /\ v.traps[a].ur # 0 => v.traps[v.traps[a].ur].ul = a
        /\ v.traps[a].ul # 0 => v.traps[v.traps[a].ul].ur = a
        /\ v.traps[a].lr # 0 => v.traps[v.traps[a].lr].ll = a
        /\ v.traps[a].ll # 0 => v.traps[v.traps[a].ll].lr = a

\* no live trapezoid keeps a link to a trapezoid that was replaced
NoStaleLinks(v) ==
    \A a \in Live(v) :
        {v.traps[a].ur, v.traps[a].ul, v.traps[a].lr, v.traps[a].ll} \subseteq Live(v) \cup {0}

\* C2: after every insert of a segment that does not cross the segments
\* inserted before, every neighbor link between live trapezoids is mutual
\* (upper right against upper left, lower right against lower left, and the
\* same from the left), and no live trapezoid links to a replaced trapezoid.
C2_NeighborLinksMutual ==
    pl.status = "ok" => MutualLinks(pl) /\ NoStaleLinks(pl)

\* all segments are in, one of them was inserted through several trapezoids
\* (a leaf kept from before hangs under two y-nodes), trapezoids were
\* replaced, and a live trapezoid has two different right neighbors
C2_Witness ==
    /\ pl.status = "ok"
    /\ pl.pending = {}
    /\ Len(pl.lsegs) >= 5
    /\ Len(pl.traps) > Len(pl.live)
    /\ \E a \in Live(pl) : Len(pl.nodes[pl.traps[a].leaf].parents) >= 2
    /\ \E a \in Live(pl) : /\ pl.traps[a].ur # 0
                            /\ pl.traps[a].lr # 0
                            /\ pl.traps[a].ur # pl.traps[a].lr

\* C3: for a decomposition built from a DCEL and a query point inside the
\* bounding box on no segment, query(point) returns a face f with
\* f.contains(point) true; for a point of the unbounded region the face
\* returned is the outer face of the DCEL.
C3_QueryFaceContainsPoint ==
    qres # NoQuery =>
        /\ qres.status = "ok"
        /\ qres.face \in DOMAIN dcel.fouter
        /\ Contains(dcel, qres.face, qres.p)

OnInsertedSegment(v, p) ==
    \E i \in DOMAIN v.lsegs : OnSeg(p, v.segs[v.lsegs[i]].l, v.segs[v.lsegs[i]].r)

\* C11: an external query(point) for a point that lies exactly on a
\* previously inserted segment is rejected with an error; it never returns a
\* face chosen by treating the point as above or below the segment.
C11_QueryOnSegmentRejected ==
    (qres # NoQuery /\ OnInsertedSegment(pl, qres.p)) => qres.status # "ok"

\* what insert may change: the inserted segments, the trapezoids with their
\* neighbor links, the live set and the DAG
Structure(v) ==
    [lsegs |-> v.lsegs, traps |-> v.traps, live |-> v.live, nodes |-> v.nodes, root |-> v.root]

\* C12: insert(s) for a segment s that equals, or collinearly overlaps, a
\* previously inserted segment fails with an error, and the failed insert
\* leaves the list of inserted segments, the live trapezoid set, all neighbor
\* links and the DAG exactly as they were before the call.
C12_OverlapInsertFails ==
    [][(/\ steps' = steps + 1
        /\ ret'.op = "insert"
        /\ Overlapping(pl, ret'.p, ret'.q))
       => /\ ret'.status # "ok"
          /\ Structure(pl') = Structure(pl)]_vars

\* the endpoints of segment i of the arena
SegAt(v, i) == <<v.segs[i].l, v.segs[i].r>>

\* scenario A: the box (0,0)-(40,40), the segments (2,6)-(15,4) and
\* (12,2)-(18,2) inserted in either order, then (8,8)-(20,8)
ScenarioA(v) ==
    /\ v.box = ScenarioBox
    /\ v.status = "ok"
    /\ Len(v.lsegs) = 3
    /\ {SegAt(v, v.lsegs[1]), SegAt(v, v.lsegs[2])}
         = {<<<<2, 6>>, <<15, 4>>>>, <<<<12, 2>>, <<18, 2>>>>}
    /\ SegAt(v, v.lsegs[3]) = <<<<8, 8>>, <<20, 8>>>>

\* the trapezoid the search from the root resolves to for an external query
Located(v, p) == Search(v, v.root, p, 0, Len(v.nodes) + 1)

\* C13 as stated: in scenario A the search for (10,7) resolves to the
\* trapezoid whose top segment is (8,8)-(20,8) and whose bottom segment is
\* the bottom edge of the bounding box.
C13_ScenarioABottomOfBox ==
    ScenarioA(pl) =>
        /\ Located(pl, <<10, 7>>) # 0
        /\ SegAt(pl, pl.traps[Located(pl, <<10, 7>>)].top) = <<<<8, 8>>, <<20, 8>>>>
        /\ pl.traps[Located(pl, <<10, 7>>)].bottom = 2

\* C13 amended: in scenario A the search for (10,7) resolves to the trapezoid
\* whose top segment is (8,8)-(20,8) and whose bottom segment is the inserted
\* segment (2,6)-(15,4), which runs between the point and the bottom edge of
\* the bounding box.
C13_ScenarioA ==
    ScenarioA(pl) =>
        /\ Located(pl, <<10, 7>>) # 0
        /\ SegAt(pl, pl.traps[Located(pl, <<10, 7>>)].top) = <<<<8, 8>>, <<20, 8>>>>
        /\ SegAt(pl, pl.traps[Located(pl, <<10, 7>>)].bottom) = <<<<2, 6>>, <<15, 4>>>>

\* the three segments of scenario A are in and (10,7) was queried
C13_Witness ==
    /\ ScenarioA(pl)
    /\ ret.op = "insert"
    /\ ret.p = <<8, 8>>
    /\ qres.p = <<10, 7>>

\* C14: after construction from a DCEL, and again after clear(), query(point)
\* returns the above_face of the bottom segment of the located trapezoid, and
\* that face is a face of the PointLocation's own DCEL; when the bottom
\* segment is the bottom edge of the bounding box it is the outer_face of that
\* DCEL.
C14_QueryFaceOfOwnDCEL ==
    (/\ ret.op \in {"init", "clear"}
     /\ qres # NoQuery
     /\ ~OnInsertedSegment(pl, qres.p))
    => /\ qres.status = "ok"
       /\ qres.face = pl.segs[pl.traps[Located(pl, qres.p)].bottom].face
       /\ qres.face \in DOMAIN dcel.fouter
       /\ pl.traps[Located(pl, qres.p)].bottom = 2 => qres.face = dcel.outer_face


\* the segments inserted so far meet in common endpoints only
InsertedValid(v) ==
    \A i, j \in DOMAIN v.lsegs :
        i < j => /\ ~SegmentsCross(v.segs[v.lsegs[i]].l, v.segs[v.lsegs[i]].r, v.segs[v.lsegs[j]].l, v.segs[v.lsegs[j]].r)
                 /\ ~CollinearOverlap(v.segs[v.lsegs[i]].l, v.segs[v.lsegs[i]].r, v.segs[v.lsegs[j]].l, v.segs[v.lsegs[j]].r)

\* trapezoid t is live and the point lies in it: from its left point up to,
\* and not at, its right point, above its bottom and below its top segment
TrapezoidHolds(v, t, p) ==
    /\ t # 0
    /\ t \in Live(v)
    /\ (v.traps[t].lp = p \/ LexLess(v.traps[t].lp, p))
    /\ LexLess(p, v.traps[t].rp)
    /\ VOrient(v, p, v.traps[t].bottom) = "ABOVE"
    /\ VOrient(v, p, v.traps[t].top) = "BELOW"

\* the same for the left endpoint of a segment about to be inserted, which
\* may be an endpoint of the bottom or the top segment
TrapezoidHoldsEndpoint(v, t, p) ==
    /\ t # 0
    /\ t \in Live(v)
    /\ (v.traps[t].lp = p \/ LexLess(v.traps[t].lp, p))
    /\ LexLess(p, v.traps[t].rp)
    /\ VOrient(v, p, v.traps[t].bottom) # "BELOW"
    /\ VOrient(v, p, v.traps[t].top) # "ABOVE"

\* the caller segments insert may be called with next
NextInsertable(v) == {s \in CallerSegments : v.box = ScenarioBox /\ Insertable(v, s[1], s[2])}

\* C19: after any sequence of valid inserts, for every point p inside the
\* bounding box on no inserted segment the search from the root returns a
\* live trapezoid that holds p (left point <= p < right point in the
\* lexicographic order, p above the bottom and below the top segment); the
\* search insert makes for the left endpoint of a valid next segment returns
\* a live trapezoid that holds that endpoint.
C19_SearchFindsContainingTrapezoid ==
    (pl.status = "ok" /\ InsertedValid(pl)) =>
        /\ \A p \in CallerProbes :
              (InBox(p, pl.box) /\ ~OnInsertedSegment(pl, p)) => TrapezoidHolds(pl, Located(pl, p), p)
        /\ \A s \in NextInsertable(pl) :
              TrapezoidHoldsEndpoint(pl, Search([pl EXCEPT !.segs = Append(@, VDLineSegment(s[1], s[2], 0))], pl.root, SegLeft(s[1], s[2]), Len(pl.segs) + 1, Len(pl.nodes) + 1), SegLeft(s[1], s[2]))

\* three caller segments are in, two of them with a common endpoint, a
\* trapezoid was replaced, a probe is located through x-nodes and y-nodes in
\* a trapezoid between two inserted segments, and a next segment starts at
\* an endpoint of an inserted one
C19_Witness ==
    /\ pl.status = "ok"
    /\ InsertedValid(pl)
    /\ ret.op = "insert"
    /\ Len(pl.lsegs) = 3
    /\ Len(pl.traps) > Len(pl.live)
    /\ \E i, j \in DOMAIN pl.lsegs : i # j /\ pl.segs[pl.lsegs[i]].r = pl.segs[pl.lsegs[j]].l
    /\ \E p \in CallerProbes :
          /\ InBox(p, pl.box) /\ ~OnInsertedSegment(pl, p)
          /\ pl.traps[Located(pl, p)].bottom > 2
          /\ pl.traps[Located(pl, p)].top > 2
    /\ \E s \in NextInsertable(pl) : OnInsertedSegment(pl, SegLeft(s[1], s[2]))


\* the children of a set of nodes, None left out
ChildrenOf(v, ns) == ({v.nodes[n].left : n \in ns} \cup {v.nodes[n].right : n \in ns}) \ {0}

RECURSIVE ReachableFrom(_, _, _)
\* the nodes a walk down from the nodes of frontier can visit
ReachableFrom(v, frontier, seen) ==
    IF frontier \subseteq seen THEN seen
    ELSE ReachableFrom(v, ChildrenOf(v, frontier), seen \cup frontier)

\* the leafs a search from the root can end in
ReachableLeafs(v) == {n \in ReachableFrom(v, {v.root}, {}) : v.nodes[n].kind = "L"}

\* C20: after every completed insert the trapezoid set and the DAG agree:
\* every live trapezoid has a search_leaf whose face is that trapezoid and
\* that leaf is reachable from the root, and every leaf reachable from the
\* root wraps a live trapezoid.
C20_TrapezoidsAndLeafsAgree ==
    pl.status = "ok" =>
        /\ \A t \in Live(pl) :
              /\ pl.traps[t].leaf # 0
              /\ pl.nodes[pl.traps[t].leaf].kind = "L"
              /\ pl.nodes[pl.traps[t].leaf].face = t
              /\ pl.traps[t].leaf \in ReachableLeafs(pl)
        /\ \A n \in ReachableLeafs(pl) : pl.nodes[n].face \in Live(pl)

\* an insert through several trapezoids completed: trapezoids were replaced,
\* their leafs are still in the arena but no longer reachable, and a leaf
\* kept from before hangs under two y-nodes
C20_Witness ==
    /\ pl.status = "ok"
    /\ Len(pl.lsegs) >= 3
    /\ Len(pl.traps) > Len(pl.live)
    /\ \E n \in DOMAIN pl.nodes : pl.nodes[n].kind = "L" /\ n \notin ReachableLeafs(pl)
    /\ \E a \in Live(pl) : Len(pl.nodes[pl.traps[a].leaf].parents) >= 2


(***************************************************************************)
(* One insert, seen as a step from pl to pl': the segment it inserted, the *)
(* trapezoid its search found and the leafs it handed to replace_with      *)
(***************************************************************************)
\* a call of insert returned normally in this step
InsertCompleted == pl'.status = "ok" /\ Len(pl'.lsegs) = Len(pl.lsegs) + 1

\* the segment of that call
InsertedSegment == pl'.lsegs[Len(pl'.lsegs)]

\* the structure before the call, on the arena that holds the segment
BeforeInsert == [pl EXCEPT !.segs = pl'.segs]

\* left_point_face of insert
LeftPointFace ==
    Search(BeforeInsert, pl.root, pl'.segs[InsertedSegment].l, InsertedSegment, Len(pl.nodes) + 1)

\* unvalid_leafs of insert, in the order of unvalid_trapezoids
UnvalidLeafs ==
    LET unvalid == VDUpdate(BeforeInsert, InsertedSegment, LeftPointFace).unvalid
    IN [i \in DOMAIN unvalid |-> pl.traps[unvalid[i]].leaf]

\* the inner nodes of v that hold node n as a child
HoldersOf(v, n) ==
    {m \in DOMAIN v.nodes : v.nodes[m].kind # "L" /\ (v.nodes[m].left = n \/ v.nodes[m].right = n)}

\* in v2 node r stands in every child slot of the parents ps that held node n in v1
StandsIn(v1, v2, ps, n, r) ==
    \A k \in DOMAIN ps :
        /\ v1.nodes[ps[k]].left = n => v2.nodes[ps[k]].left = r
        /\ v1.nodes[ps[k]].right = n => v2.nodes[ps[k]].right = r

\* the replaced leaf n of v1 is detached in v2: a node made by the insert
\* stands in its place with its parents ps, n has no parent and no holder
Detached(v1, v2, ps, n) ==
    /\ \E r \in DOMAIN v2.nodes :
          /\ r > Len(v1.nodes)
          /\ StandsIn(v1, v2, ps, n, r)
          /\ v2.nodes[r].parents = ps
    /\ v2.nodes[n].parents = <<>>
    /\ HoldersOf(v2, n) = {}

\* C21: when an insert replaces a leaf that has two or more parents,
\* afterwards every one of those parents holds the replacement subtree in
\* the child slot that held the leaf, the replacement's parent list is
\* exactly those parents, the replaced leaf's parent list is empty, and no
\* inner node keeps the replaced leaf as a child.
C21_ReplacedLeafDetached ==
    [][InsertCompleted =>
         \A ul \in {UnvalidLeafs} : \A i \in DOMAIN ul :
            Len(pl.nodes[ul[i]].parents) >= 2 => Detached(pl, pl', pl.nodes[ul[i]].parents, ul[i])]_vars

\* in v2 some node made by the insert stands where node n stood and has
\* taken the parents ps of n
HandedOver(v1, v2, ps, n) ==
    \E r \in DOMAIN v2.nodes :
        /\ r > Len(v1.nodes)
        /\ StandsIn(v1, v2, ps, n, r)
        /\ v2.nodes[r].parents = ps

\* the leaf n of v1 is kept in v2: it hangs under y-nodes made by the insert
\* and under nothing else
KeptUnderNewYNodes(v1, v2, n) ==
    /\ v2.nodes[n].parents # <<>>
    /\ HoldersOf(v2, n) = Range(v2.nodes[n].parents)
    /\ \A m \in HoldersOf(v2, n) : m > Len(v1.nodes) /\ v2.nodes[m].kind = "Y"

\* C21, amended: when an insert replaces a leaf that has two or more
\* parents, afterwards every one of those parents holds the replacement
\* subtree in the child slot that held the leaf and the replacement's parent
\* list is exactly those parents. The leaf of the trapezoid that holds the
\* left or the right endpoint then has an empty parent list and no inner
\* node keeps it as a child; the leaf of a trapezoid the segment only runs
\* through is kept: it hangs under y-nodes made by this insert, and under
\* none of its former parents.
C21_ReplacedLeafHandedOver ==
    [][InsertCompleted =>
         \A ul \in {UnvalidLeafs} : \A i \in DOMAIN ul :
            Len(pl.nodes[ul[i]].parents) >= 2 =>
               /\ HandedOver(pl, pl', pl.nodes[ul[i]].parents, ul[i])
               /\ IF i \in {1, Len(ul)}
                  THEN pl'.nodes[ul[i]].parents = <<>> /\ HoldersOf(pl', ul[i]) = {}
                  ELSE KeptUnderNewYNodes(pl, pl', ul[i])]_vars

\* a replaced leaf has lost its parents, and a y-node with two parents, which
\* only replace_with gives, holds a leaf older than itself: the kept leaf it
\* replaced
C21_Witness ==
    /\ pl.status = "ok"
    /\ \E n \in DOMAIN pl.nodes :
          /\ pl.nodes[n].kind = "L" /\ pl.nodes[n].parents = <<>> /\ n # pl.root
          /\ HoldersOf(pl, n) = {}
    /\ \E n \in DOMAIN pl.nodes :
          /\ pl.nodes[n].kind = "Y" /\ Len(pl.nodes[n].parents) >= 2
          /\ \E c \in {pl.nodes[n].left, pl.nodes[n].right} : c < n /\ pl.nodes[c].kind = "L"


\* the nodes a walk down from the root can visit
ReachableNodes(v) == ReachableFrom(v, {v.root}, {})

\* VDNode.check_structure for node n: an inner node has both children and is
\* a parent of each, a leaf has no child
NodeWellFormed(v, n) ==
    IF v.nodes[n].kind = "L"
    THEN v.nodes[n].left = 0 /\ v.nodes[n].right = 0
    ELSE /\ v.nodes[n].left # 0
         /\ v.nodes[n].right # 0
         /\ InSeq(v.nodes[v.nodes[n].left].parents, n)
         /\ InSeq(v.nodes[v.nodes[n].right].parents, n)

\* C22: after every insert, every x-node and y-node reachable from the root
\* has two children that are not None and is in the parents list of each of
\* them, every reachable leaf has no children, and the root has an empty
\* parents list.
C22_InnerNodesRegistered ==
    pl.status = "ok" =>
        /\ \A n \in ReachableNodes(pl) : NodeWellFormed(pl, n)
        /\ pl.nodes[pl.root].parents = <<>>

\* inserts completed, the root is an inner node, a reachable leaf is
\* registered under several parents and a reachable inner node took the
\* parents of a leaf it replaced
C22_Witness ==
    /\ pl.status = "ok"
    /\ Len(pl.lsegs) >= 3
    /\ pl.nodes[pl.root].kind = "X"
    /\ \E n \in ReachableNodes(pl) : pl.nodes[n].kind = "L" /\ Len(pl.nodes[n].parents) >= 2
    /\ \E n \in ReachableNodes(pl) : pl.nodes[n].kind # "L" /\ Len(pl.nodes[n].parents) >= 2


\* the nodes below node n: what a walk that starts at a child of n can visit
Below(v, n) == ReachableFrom(v, ChildrenOf(v, {n}), {})

\* C28: after any sequence of inserts the search structure is acyclic
\* although nodes may have several parents: no node is reachable from itself
\* through child links, and every search from the root ends at a leaf after
\* finitely many steps (at most one per node).
C28_SearchStructureAcyclic ==
    pl.status = "ok" =>
        /\ \A n \in DOMAIN pl.nodes : n \notin Below(pl, n)
        /\ \A p \in CallerProbes : InBox(p, pl.box) => Located(pl, p) # 0

\* the structure is not a tree: a leaf kept by an insert hangs under two
\* y-nodes younger than itself, and searches for two probes end in it or in
\* another leaf after passing x-nodes and y-nodes
C28_Witness ==
    /\ pl.status = "ok"
    /\ \E n \in DOMAIN pl.nodes :
          /\ pl.nodes[n].kind = "L"
          /\ Cardinality({m \in HoldersOf(pl, n) : m > n /\ pl.nodes[m].kind = "Y"}) >= 2
          /\ \E p \in CallerProbes : InBox(p, pl.box) /\ pl.traps[Located(pl, p)].leaf = n
    /\ Cardinality(Below(pl, pl.root)) >= 10


\* the left (right) side of trapezoid t lies on the left (right) side of the
\* bounding box
OnBoxLeft(v, t) == v.traps[t].lp[1] = v.box[1][1]
OnBoxRight(v, t) == v.traps[t].rp[1] = v.box[2][1]

\* C27: after every insert, for every live trapezoid each of its four
\* neighbor links is None only where the corresponding side of the trapezoid
\* coincides with the bounding box; every neighbor slot not on the bounding
\* box boundary is not None.
C27_NeighborsNoneOnlyAtBox ==
    pl.status = "ok" =>
        \A t \in Live(pl) :
            /\ pl.traps[t].ul = 0 => OnBoxLeft(pl, t)
            /\ pl.traps[t].ll = 0 => OnBoxLeft(pl, t)
            /\ pl.traps[t].ur = 0 => OnBoxRight(pl, t)
            /\ pl.traps[t].lr = 0 => OnBoxRight(pl, t)

\* C27, amended: after every insert, for every live trapezoid a neighbor
\* link is None only where the corresponding side of the trapezoid coincides
\* with the bounding box, or where the trapezoid's left (right) point is the
\* left (right) endpoint of its top segment, for an upper link, or of its
\* bottom segment, for a lower link; every other neighbor slot is not None.
C27_NeighborsNoneOnlyAtBoxOrEndpoint ==
    pl.status = "ok" =>
        \A t \in Live(pl) :
            /\ pl.traps[t].ul = 0 => (OnBoxLeft(pl, t) \/ pl.traps[t].lp = pl.segs[pl.traps[t].top].l)
            /\ pl.traps[t].ll = 0 => (OnBoxLeft(pl, t) \/ pl.traps[t].lp = pl.segs[pl.traps[t].bottom].l)
            /\ pl.traps[t].ur = 0 => (OnBoxRight(pl, t) \/ pl.traps[t].rp = pl.segs[pl.traps[t].top].r)
            /\ pl.traps[t].lr = 0 => (OnBoxRight(pl, t) \/ pl.traps[t].rp = pl.segs[pl.traps[t].bottom].r)

\* an insert through several trapezoids completed; a live trapezoid away from
\* the box has all four neighbors, and another lacks the lower left one
\* because its left point is the left endpoint of its bottom segment
C27_Witness ==
    /\ pl.status = "ok"
    /\ Len(pl.lsegs) >= 3
    /\ Len(pl.traps) > Len(pl.live) + 1
    /\ \E t \in Live(pl) :
          /\ ~OnBoxLeft(pl, t) /\ ~OnBoxRight(pl, t)
          /\ 0 \notin {pl.traps[t].ul, pl.traps[t].ll, pl.traps[t].ur, pl.traps[t].lr}
    /\ \E t \in Live(pl) :
          /\ ~OnBoxLeft(pl, t)
          /\ pl.traps[t].ll = 0
          /\ pl.traps[t].ul # 0
          /\ pl.traps[t].lp = pl.segs[pl.traps[t].bottom].l


\* unvalid_trapezoids of the insert of this step: left_point_face first, the
\* trapezoid that holds the right endpoint last
UnvalidTrapezoids == VDUpdate(BeforeInsert, InsertedSegment, LeftPointFace).unvalid

\* how many endpoints of segment s are the left point of the trapezoid first,
\* or the right point of the trapezoid last
EndpointsOnCorners(v, s, first, last) ==
    (IF v.segs[s].l = v.traps[first].lp THEN 1 ELSE 0) + (IF v.segs[s].r = v.traps[last].rp THEN 1 ELSE 0)

\* C30: each successful insert of a non-crossing segment increases the
\* number of live trapezoids by exactly 3 minus the number of its endpoints
\* that are the left or right point of the trapezoid containing them,
\* whatever the number of trapezoids the segment runs through; hence after n
\* inserts there are at most 3n + 1 live trapezoids.
C30_TrapezoidCount ==
    [][(InsertCompleted /\ InsertedValid(pl')) =>
         /\ \A u \in {UnvalidTrapezoids} :
               Len(pl'.live) = Len(pl.live) + 3 - EndpointsOnCorners(BeforeInsert, InsertedSegment, u[1], u[Len(u)])
         /\ Len(pl'.live) <= 3 * Len(pl'.lsegs) + 1]_vars

\* three segments are in, one of them ran through several trapezoids (a
\* leaf hangs under two y-nodes), some endpoint met a corner of its trapezoid
\* (fewer than 3n + 1 trapezoids) and the segment inserted first met none
C30_Witness ==
    /\ pl.status = "ok"
    /\ InsertedValid(pl)
    /\ Len(pl.lsegs) = 3
    /\ Len(pl.live) \in 5..9
    /\ Cardinality(Live(pl)) = Len(pl.live)
    /\ \E n \in DOMAIN pl.nodes : pl.nodes[n].kind = "L" /\ Cardinality(HoldersOf(pl, n)) >= 2
    /\ pl.nodes[pl.root].kind = "X" /\ pl.nodes[pl.nodes[pl.root].right].kind = "X"


\* the x-nodes the insert of this step created, and the trapezoids it created
NewXNodes == {n \in DOMAIN pl'.nodes : n > Len(pl.nodes) /\ pl'.nodes[n].kind = "X"}
NewTrapezoids == {t \in DOMAIN pl'.traps : t > Len(pl.traps)}

\* the x-nodes of v keyed by point p
XNodesOf(v, p) == {n \in DOMAIN v.nodes : v.nodes[n].kind = "X" /\ v.nodes[n].point = p}

\* what the insert of segment s may create when first holds its left and
\* last its right endpoint: an x-node for an endpoint only if the endpoint is
\* not the left (right) point of its trapezoid, and no trapezoid that ends at
\* a left endpoint (begins at a right endpoint) that is
CreatesNoDuplicateSplit(v, s, first, last, xnodes, nodes, trapezoids, traps) ==
    /\ \A n \in xnodes : nodes[n].point \in {v.segs[s].l, v.segs[s].r}
    /\ \A n \in xnodes : nodes[n].point = v.segs[s].l => v.segs[s].l # v.traps[first].lp
    /\ \A n \in xnodes : nodes[n].point = v.segs[s].r => v.segs[s].r # v.traps[last].rp
    /\ v.segs[s].l = v.traps[first].lp => \A t \in trapezoids : traps[t].rp # v.segs[s].l
    /\ v.segs[s].r = v.traps[last].rp => \A t \in trapezoids : traps[t].lp # v.segs[s].r

\* C26: an insert adds an x-node keyed by the segment's left (right) endpoint
\* only if that endpoint is not already the left (right) point of the
\* trapezoid containing it; an insert whose left endpoint is an already
\* split point creates no x-node and no left trapezoid for that point; so
\* after any sequence of inserts the DAG holds at most one x-node per
\* distinct endpoint.
C26_OneXNodePerEndpoint ==
    [][(InsertCompleted /\ InsertedValid(pl')) =>
         /\ \A u \in {UnvalidTrapezoids} :
               CreatesNoDuplicateSplit(BeforeInsert, InsertedSegment, u[1], u[Len(u)], NewXNodes, pl'.nodes, NewTrapezoids, pl'.traps)
         /\ \A n \in DOMAIN pl'.nodes : pl'.nodes[n].kind = "X" => XNodesOf(pl', pl'.nodes[n].point) = {n}]_vars

\* three segments are in, two of them begin at one point and two of them end
\* at one point or one begins where another ends; fewer than six x-nodes
\* were made and some endpoint has its x-node
C26_Witness ==
    /\ pl.status = "ok"
    /\ InsertedValid(pl)
    /\ Len(pl.lsegs) = 3
    /\ \E i, j \in DOMAIN pl.lsegs : i < j /\ pl.segs[pl.lsegs[i]].l = pl.segs[pl.lsegs[j]].l
    /\ \E i, j \in DOMAIN pl.lsegs : i # j /\ pl.segs[pl.lsegs[i]].r \in {pl.segs[pl.lsegs[j]].l, pl.segs[pl.lsegs[j]].r}
    /\ \A i \in DOMAIN pl.lsegs : Cardinality(XNodesOf(pl, pl.segs[pl.lsegs[i]].l)) = 1
    /\ Cardinality({n \in DOMAIN pl.nodes : pl.nodes[n].kind = "X"}) < 6


(***************************************************************************)
(* Further properties of the DCEL                                          *)
(***************************************************************************)
\* the vertices find_vertex(p) filters out of _vertices
VerticesAt(d, p) == {v \in DOMAIN d.vp : d.vp[v] = p}

\* C29: after any sequence of add_vertex calls, also with a point that
\* equals an existing vertex's point in coordinates but is another object,
\* no two vertices of the DCEL have equal coordinates, so find_vertex never
\* raises its "More than one vertex" assertion.
C29_NoTwoVerticesAtOnePoint ==
    \A p \in Universe : Cardinality(VerticesAt(dcel, p)) <= 1


\* vertex v has an edge: a half-edge with a twin other than itself leaves it
HasEdges(d, v) == \E e \in DOMAIN d.origin : d.origin[e] = v /\ d.twin[e] # e

\* the vertices v and w lie on one boundary cycle of face f: the cycle of
\* some half-edge of f passes both
OnOneBoundaryCycle(d, f, v, w) ==
    \E e \in DOMAIN d.origin :
        /\ d.iface[e] = f
        /\ \E x \in Range(Cycle(d, e)) : d.origin[x] = v
        /\ \E x \in Range(Cycle(d, e)) : d.origin[x] = w

\* the number of faces an edge between the vertices v and w of common face f
\* is to add
FacesAdded(d, f, v, w) ==
    IF HasEdges(d, v) /\ HasEdges(d, w) /\ OnOneBoundaryCycle(d, f, v, w) THEN 1 ELSE 0

\* C23: when add_edge_by_points connects two vertices that both have edges,
\* the number of faces grows by exactly one if both vertices lie on the same
\* boundary cycle of the common face and stays the same otherwise; an edge
\* insertion with a vertex without edges never changes the number of faces.
C23_FaceCountOnAddEdge ==
    [][(/\ steps' = steps + 1
        /\ ret'.op = "add_edge_by_points"
        /\ ret'.status = "ok")
       => Len(dcel'.fouter) = Len(dcel.fouter)
             + FacesAdded(dcel, ret'.f0, LookupVertex(dcel, ret'.p, ret'.q), LookupVertex(dcel, ret'.q, ret'.p))]_vars

\* an edge was added between two vertices that both had edges (neither new
\* half-edge is the half-edge of its vertex) on two different boundary
\* cycles: the two new half-edges lie on one cycle of one face, which keeps
\* an inner face beside it
C23_Witness ==
    /\ ret.op = "add_edge_by_points"
    /\ ret.status = "ok"
    /\ Len(dcel.fouter) >= 3
    /\ \E e \in DOMAIN dcel.origin :
          /\ OPoint(dcel, e) = ret.p /\ DPoint(dcel, e) = ret.q
          /\ dcel.ve[dcel.origin[e]] # e
          /\ dcel.ve[dcel.origin[dcel.twin[e]]] # dcel.twin[e]
          /\ dcel.iface[e] = dcel.iface[dcel.twin[e]]
          /\ dcel.twin[e] \in Range(Cycle(dcel, e))


\* the boundary cycles of face f, as sets of half-edges, and those among
\* them that are not its outer component
BoundaryCycles(d, f) ==
    {Range(Cycle(d, e)) : e \in {x \in DOMAIN d.origin : d.iface[x] = f /\ d.twin[x] # x}}

InnerCycles(d, f) == {c \in BoundaryCycles(d, f) : d.fouter[f] \notin c}

\* inner_components of f holds exactly one half-edge of each inner boundary
\* cycle of f, and nothing else
OneRepresentativePerCycle(d, f) ==
    /\ \A c \in InnerCycles(d, f) : Cardinality({i \in DOMAIN d.finner[f] : d.finner[f][i] \in c}) = 1
    /\ \A i \in DOMAIN d.finner[f] : \E c \in InnerCycles(d, f) : d.finner[f][i] \in c

\* the inner component c of old_face in d1, left alone by the new edge, lies
\* within the outer boundary of new_face in d2 and has gone over to it
ComponentMoved(d1, d2, c, old_face, new_face) ==
    (/\ Range(Cycle(d1, c)) = Range(Cycle(d2, c))
     /\ Contains(d2, new_face, OPoint(d2, c)))
    => /\ \E i \in DOMAIN d2.finner[new_face] : d2.finner[new_face][i] \in Range(Cycle(d2, c))
       /\ \A i \in DOMAIN d2.finner[old_face] : d2.finner[old_face][i] \notin Range(Cycle(d2, c))
       /\ \A x \in Range(Cycle(d2, c)) : d2.iface[x] = new_face

\* an add_edge_by_points of this step split a face
FaceSplit ==
    /\ steps' = steps + 1
    /\ ret'.op = "add_edge_by_points"
    /\ ret'.status = "ok"
    /\ Len(dcel'.fouter) = Len(dcel.fouter) + 1

\* C24: after an edge insertion that splits a face into the old face and a
\* new face, every inner component of the old face that lies inside the new
\* face's outer boundary is listed in the new face's inner_components and no
\* longer in the old face's, all half-edges on its cycle have the new face as
\* incident face, and every face lists exactly one representative half-edge
\* per inner boundary cycle.
C24_ComponentsFollowNewFace ==
    [][FaceSplit =>
         /\ \A i \in DOMAIN dcel.finner[ret'.f0] :
               ComponentMoved(dcel, dcel', dcel.finner[ret'.f0][i], ret'.f0, Len(dcel'.fouter))
         /\ \A f \in DOMAIN dcel'.fouter : OneRepresentativePerCycle(dcel', f)]_vars

\* a face was split and the new face, the last one, took over an inner
\* component that the new edge is not part of
C24_Witness ==
    /\ ret.op = "add_edge_by_points"
    /\ ret.status = "ok"
    /\ \E e \in DOMAIN dcel.origin :
          /\ OPoint(dcel, e) = ret.p /\ DPoint(dcel, e) = ret.q
          /\ Len(dcel.fouter) \in {dcel.iface[e], dcel.iface[dcel.twin[e]]}
          /\ dcel.iface[e] # dcel.iface[dcel.twin[e]]
    /\ dcel.finner[Len(dcel.fouter)] # <<>>
    /\ \A i \in DOMAIN dcel.finner[Len(dcel.fouter)] :
          /\ dcel.iface[dcel.finner[Len(dcel.fouter)][i]] = Len(dcel.fouter)
          /\ \A x \in Range(Cycle(dcel, dcel.finner[Len(dcel.fouter)][i])) :
                {OPoint(dcel, x), DPoint(dcel, x)} # {ret.p, ret.q}


RECURSIVE CrossSum(_, _, _)
\* twice the signed area the half-edges of cyc enclose: the sum of the cross
\* products of origin and destination, positive for a counter-clockwise cycle
CrossSum(d, cyc, i) ==
    IF i > Len(cyc) THEN 0
    ELSE OPoint(d, cyc[i])[1] * DPoint(d, cyc[i])[2] - DPoint(d, cyc[i])[1] * OPoint(d, cyc[i])[2]
         + CrossSum(d, cyc, i + 1)

CounterClockwise(d, e) == CrossSum(d, Cycle(d, e), 1) > 0

\* the outer component of the bounded face f is a counter-clockwise cycle of
\* half-edges of f
OuterComponentSound(d, f) ==
    /\ d.fouter[f] # 0
    /\ CounterClockwise(d, d.fouter[f])
    /\ \A e \in Range(Cycle(d, d.fouter[f])) : d.iface[e] = f

\* the half-edges between the points p and q
EdgeBetween(d, p, q) == {e \in DOMAIN d.origin : {OPoint(d, e), DPoint(d, e)} = {p, q} /\ p # q}

\* C25: after any sequence of valid edge insertions, the outer_component
\* cycle of every bounded face is counter-clockwise and all half-edges on it
\* have that face as incident face; when a split happens, the
\* counter-clockwise side of the newly closed cycle becomes the new face.
C25_OuterComponentsCounterClockwise ==
    [][/\ \A f \in DOMAIN dcel'.fouter : ~dcel'.fisout[f] => OuterComponentSound(dcel', f)
       /\ FaceSplit =>
             \E e \in EdgeBetween(dcel', ret'.p, ret'.q) :
                /\ CounterClockwise(dcel', e)
                /\ dcel'.iface[e] = Len(dcel'.fouter)
                /\ e \in Range(Cycle(dcel', dcel'.fouter[Len(dcel'.fouter)]))]_vars

\* a bounded face was split: the edge added lies between two bounded faces,
\* both of its sides are counter-clockwise cycles, the new face took one and
\* the old face took the other as its outer component
C25_Witness ==
    /\ ret.op = "add_edge_by_points"
    /\ ret.status = "ok"
    /\ Len(dcel.fouter) >= 3
    /\ \E e \in EdgeBetween(dcel, ret.p, ret.q) :
          /\ dcel.iface[e] = Len(dcel.fouter)
          /\ dcel.iface[dcel.twin[e]] \notin {dcel.outer_face, Len(dcel.fouter)}
          /\ CounterClockwise(dcel, e)
          /\ CounterClockwise(dcel, dcel.twin[e])
          /\ dcel.twin[e] \in Range(Cycle(dcel, dcel.fouter[dcel.iface[dcel.twin[e]]]))

====
